---- MODULE Spec2Model ----
(***************************************************************************)
(* Quacker: a terminal social-network client (src/src/Pond.cc holds the    *)
(* Pond data-access class followed by the Quacker page logic).             *)
(*                                                                         *)
(* The development has these specifications over one set of variables:     *)
(*   SpecAlloc   - the user-id allocator and Pond::addUser,                *)
(*   SpecFeed    - follow / quack / requack and the feed query,            *)
(*   SpecPage    - the windows and row selections of the list views,       *)
(*   SpecSession - log in, sign up and the text prompts of the pages,      *)
(*   SpecRace    - two sessions in Pond::addUser at the same time,         *)
(*   SpecLists   - Pond::addPost, createList, addToList and addReply,      *)
(*   SpecFormat  - Quacker::formatTweetText,                               *)
(*   SpecUser    - the window and the row prompt of the user page,         *)
(*   SpecSelect  - the row prompts of the feed, the list pages and the     *)
(*                 user page side by side,                                 *)
(*   SpecName    - a name from signupPage to the author line of getFeed.   *)
(***************************************************************************)
EXTENDS Integers, Sequences, FiniteSets, TLC

VARIABLES
  users,        \* users table: usr -> number of rows holding that usr
  ret,          \* outcome of the last Pond::addUser call
  nAdds,        \* number of addUser calls made so far
  follows,      \* follows table: set of <<flwer, flwee>>
  tweets,       \* tweets table: set of rows
  retweets,     \* retweets table: sequence of rows, in insertion order
  now,          \* the wall clock read by the store operations
  feed,         \* the vector built by the last Pond::getFeed call
  feedViewer,   \* the user that feed was built for (0: no feed built)
  requackLog,   \* results returned by addRequack, per <<viewer, post>>
  quackMsg,     \* what the quack page showed after the last requack
  view,         \* the prompt in front: "main", "users", "quacks", "followers", ...
  maxQuacks,    \* feed.size() at the last feed render
  FeedDisplayCount, \* mainPage's window size
  error,        \* mainPage's message line
  results,      \* results.size() of the list page in front (0: none)
  UserDisplayCount, \* the list page's window size
  listMsg,      \* message printed by the list page's last M/L command
  shown,        \* row numbers printed by the latest render
  lastCmd,      \* the last command and the window size it started from
  rowI,         \* mainPage's i on return from processFeed
  lastSel,      \* the last line typed at a row-selection prompt and its outcome
  session_user_id, \* Quacker::_user_id: <<>> for nullptr, <<id>> otherwise
  logged_in,    \* Quacker::logged_in
  pwds,         \* the usr and pwd columns of the users rows: set of <<usr, pwd>>
  back,         \* the pages that called the page in front, innermost last
  typed,        \* the last line typed at a text prompt
  feedFault,    \* the last Pond::getFeed call could not prepare its query
  proc,         \* per session: how far its Pond::addUser call has got
  usrIsKey,     \* the store refuses a second users row with the same usr
  tidIsKey,     \* the store refuses a second tweets row with the same tid
  posts,        \* posts table: sequence of rows, in insertion order
  lists,        \* lists table: set of <<owner_id, lname>>
  include,      \* include table: sequence of <<owner_id, lname, tid>>
  call,         \* the last call of SpecLists and what it returned
  fmt,          \* text, line_width and result of formatTweetText
  pad,          \* a name typed at signup and the author line built from it
  hardstop,     \* userPage's window end
  users_quacks, \* users_quacks.size() of the user page in front
  userError     \* userPage's message line

allocVars == <<users, ret, nAdds>>
feedVars  == <<follows, tweets, retweets, now, feed, feedViewer, requackLog,
               quackMsg, feedFault>>
pageVars  == <<view, maxQuacks, FeedDisplayCount, error, results,
               UserDisplayCount, listMsg, shown, lastCmd, rowI, lastSel>>
sessVars  == <<session_user_id, logged_in, pwds, back, typed>>
userVars  == <<hardstop, users_quacks, userError>>
libVars   == <<proc, usrIsKey, tidIsKey, posts, lists, include, call, fmt,
               pad, userVars>>
vars      == <<users, ret, nAdds, follows, tweets, retweets, now, feed,
               feedViewer, requackLog, quackMsg, view, maxQuacks,
               FeedDisplayCount, error, results, UserDisplayCount, listMsg,
               shown, lastCmd, rowI, lastSel, session_user_id, logged_in,
               pwds, back, typed, feedFault, proc, usrIsKey, tidIsKey, posts,
               lists, include, call, fmt, pad, hardstop, users_quacks,
               userError>>

(***************************************************************************)
(* Bounds.                                                                 *)
(***************************************************************************)
IdBits   == 3      \* width of a user id (int32_t scaled down)
MaxAdds  == 2      \* addUser calls in one behaviour

Pow2(n) == 2 ^ n

INT32_MAX == Pow2(IdBits - 1) - 1
INT32_MIN == 0 - Pow2(IdBits - 1)
Ids       == INT32_MIN .. INT32_MAX

\* the value an int32_t holds after an increment or decrement: two's
\* complement wrap-around.  The only overflow is unique_id++ at INT32_MAX
\* in the first loop of get_unique_user_id; the rows are >= 0 and sorted,
\* so no later row matches the wrapped candidate, and the test
\* unique_id > INT32_MAX that follows is false for every int32_t value.
Wrap(x) == ((x - INT32_MIN) % Pow2(IdBits)) + INT32_MIN

(***************************************************************************)
(* Pond::get_unique_user_id                                                *)
(***************************************************************************)
RECURSIVE Rep(_, _)
Rep(x, n) == IF n = 0 THEN <<>> ELSE <<x>> \o Rep(x, n - 1)

\* SELECT usr FROM users WHERE usr >= 0 ORDER BY usr ASC
RECURSIVE RowsAsc(_, _)
RowsAsc(U, k) ==
  IF k > INT32_MAX THEN <<>> ELSE Rep(k, U[k]) \o RowsAsc(U, k + 1)

\* SELECT usr FROM users WHERE usr < 0 ORDER BY usr DESC
RECURSIVE RowsDesc(_, _)
RowsDesc(U, k) ==
  IF k < INT32_MIN THEN <<>> ELSE Rep(k, U[k]) \o RowsDesc(U, k - 1)

\* the first while loop: walk the rows, bump the candidate on a match,
\* stop at the first row above the candidate
RECURSIVE ScanUp(_, _, _)
ScanUp(rows, i, unique_id) ==
  IF i > Len(rows) THEN [id |-> unique_id, found |-> FALSE]
  ELSE IF rows[i] = unique_id THEN ScanUp(rows, i + 1, Wrap(unique_id + 1))
  ELSE IF rows[i] > unique_id THEN [id |-> unique_id, found |-> TRUE]
  ELSE ScanUp(rows, i + 1, unique_id)

\* the second while loop, over the negative rows
RECURSIVE ScanDown(_, _, _)
ScanDown(rows, i, unique_id) ==
  IF i > Len(rows) THEN unique_id
  ELSE IF rows[i] = unique_id THEN ScanDown(rows, i + 1, Wrap(unique_id - 1))
  ELSE IF rows[i] < unique_id THEN unique_id
  ELSE ScanDown(rows, i + 1, unique_id)

\* first candidate of the scan
FirstCandidate == 1

\* an allocator that extends the range instead of filling the first gap
get_unique_user_id_append(U, fault) ==
  IF fault = "scan" THEN [ok |-> FALSE, id |-> FirstCandidate]
  ELSE LET rows == RowsAsc(U, 1) IN
       [ok |-> TRUE,
        id |-> IF rows = <<>> THEN FirstCandidate ELSE Wrap(rows[Len(rows)] + 1)]

\* fault: the store call that fails during this call, if any
get_unique_user_id(U, fault) ==
  IF fault = "scan" THEN [ok |-> FALSE, id |-> FirstCandidate]
  ELSE LET s == ScanUp(RowsAsc(U, 0), 1, FirstCandidate) IN
       IF ~s.found /\ s.id > INT32_MAX
       THEN IF fault = "negscan" THEN [ok |-> FALSE, id |-> -1]
            ELSE [ok |-> TRUE, id |-> ScanDown(RowsDesc(U, -1), 1, -1)]
       ELSE [ok |-> TRUE, id |-> s.id]

(***************************************************************************)
(* Pond::addUser                                                           *)
(***************************************************************************)
Faults == {"none", "scan", "negscan", "insert_prepare", "insert_step"}

NoCall == [called |-> FALSE, fault |-> "none", ok |-> FALSE, id |-> 0,
           created |-> FALSE, before |-> [k \in Ids |-> 0]]

addUser(fault) ==
  /\ nAdds < MaxAdds
  /\ LET g == get_unique_user_id(users, fault)
         inserted == g.ok /\ fault \notin {"insert_prepare", "insert_step"}
     IN /\ users' = IF inserted THEN [users EXCEPT ![g.id] = @ + 1] ELSE users
        /\ ret' = [called |-> TRUE, fault |-> fault, ok |-> g.ok, id |-> g.id,
                   created |-> inserted, before |-> users]
  /\ nAdds' = nAdds + 1
  /\ UNCHANGED <<feedVars, pageVars, sessVars, libVars>>

(***************************************************************************)
(* The store behind the feed.  A tweets row is                             *)
(*   [tid, writer_id, tdate, ttime, text],                                 *)
(* a retweets row [tid, retweeter_id, rdate, rtime, spam], a follows row   *)
(* <<flwer, flwee>>.  Dates and times are numbered in calendar order.      *)
(***************************************************************************)
NumUsers    == 2   \* registered users in SpecFeed
MaxTweets   == 1   \* rows of the tweets table
MaxFollows  == 2   \* rows of the follows table
MaxRequacks == 2   \* addRequack calls in one behaviour
MaxDate     == 2   \* calendar days the clock runs through
MaxTime     == 2   \* times of day

\* the text typed on the posting page for the quack that gets id tid
TextTyped(tid) == <<"quack", tid>>

Instants == [date : 1 .. MaxDate, time : 1 .. MaxTime]

After(a, b) == a.date > b.date \/ (a.date = b.date /\ a.time > b.time)

UserIds == {k \in Ids : users[k] > 0}

\* users.name of the row with usr = u
NameOf(u) == <<"name", u>>

Range(f) == {f[i] : i \in DOMAIN f}

(***************************************************************************)
(* Pond::getFeed                                                           *)
(***************************************************************************)
\* first SELECT, with the follows join on the wrong column
TweetRowsOfFollowers(v) ==
  {[type |-> "tweet", tid |-> x[1].tid, name |-> NameOf(x[3]),
    writer_id |-> x[1].writer_id, date |-> x[1].tdate, time |-> x[1].ttime,
    text |-> x[1].text] :
     x \in {y \in tweets \X follows \X UserIds :
              /\ y[1].writer_id = y[2][1]
              /\ y[1].writer_id = y[3]
              /\ y[2][2] = v}}

\* first SELECT: tweets t1 JOIN follows f1 JOIN users u1 WHERE f1.flwer = ?
TweetRows(v) ==
  {[type |-> "tweet", tid |-> x[1].tid, name |-> NameOf(x[3]),
    writer_id |-> x[1].writer_id, date |-> x[1].tdate, time |-> x[1].ttime,
    text |-> x[1].text] :
     x \in {y \in tweets \X follows \X UserIds :
              /\ y[1].writer_id = y[2][2]
              /\ y[1].writer_id = y[3]
              /\ y[2][1] = v}}

\* second SELECT without the test on r.spam
RetweetRowsWithSpam(v) ==
  {[type |-> "retweet", tid |-> x[2].tid, name |-> NameOf(x[4]),
    writer_id |-> x[1].retweeter_id, date |-> x[1].rdate, time |-> x[2].ttime,
    text |-> x[2].text] :
     x \in {y \in Range(retweets) \X tweets \X follows \X UserIds :
              /\ y[2].tid = y[1].tid
              /\ y[1].retweeter_id = y[3][2]
              /\ y[1].retweeter_id = y[4]
              /\ y[3][1] = v}}

\* second SELECT: retweets r JOIN tweets t2 JOIN follows f2 JOIN users u2
\* WHERE f2.flwer = ? AND r.spam = 0
RetweetRows(v) ==
  {[type |-> "retweet", tid |-> x[2].tid, name |-> NameOf(x[4]),
    writer_id |-> x[1].retweeter_id, date |-> x[1].rdate, time |-> x[2].ttime,
    text |-> x[2].text] :
     x \in {y \in Range(retweets) \X tweets \X follows \X UserIds :
              /\ y[2].tid = y[1].tid
              /\ y[1].retweeter_id = y[3][2]
              /\ y[1].retweeter_id = y[4]
              /\ y[3][1] = v /\ y[1].spam = 0}}

\* the rows that may come first under ORDER BY date ASC, time ASC
FirstRowsAsc(S) == {m \in S : \A x \in S : ~After(m, x)}

\* the rows that may come first under ORDER BY date DESC, time DESC
FirstRows(S) == {m \in S : \A x \in S : ~After(x, m)}

\* every order of the rows of S that ORDER BY date DESC, time DESC allows
\* (the order of rows with equal date and time is the store's choice)
RECURSIVE OrderBy(_)
OrderBy(S) ==
  IF S = {} THEN {<<>>}
  ELSE UNION {{<<m>> \o rest : rest \in OrderBy(S \ {m})} : m \in FirstRows(S)}

\* the string pushed for one row: name padded to 80 columns, date, time, text
FeedString(row) ==
  [name |-> row.name, date |-> row.date, time |-> row.time, text |-> row.text]

\* the feed is a local of processFeed: it is gone when the render returns
NoFeed == feed' = <<>> /\ feedViewer' = 0 /\ feedFault' = FALSE

\* a getFeed that steps the rows although the query was not prepared
getFeedUnprepared(v, storeOk) ==
  /\ v \in UserIds
  /\ \E f \in OrderBy(TweetRows(v) \cup RetweetRows(v)) : feed' = f
  /\ feedViewer' = v
  /\ feedFault' = ~storeOk
  /\ UNCHANGED <<follows, tweets, retweets, now, requackLog, quackMsg>>
  /\ UNCHANGED <<allocVars, libVars, pageVars, sessVars>>

\* getFeed(user_id) as called by processFeed for the logged-in user v;
\* feed holds the rows stepped, in order (row i becomes string i).
\* storeOk: sqlite3_prepare_v2 returns SQLITE_OK
getFeed(v, storeOk) ==
  /\ v \in UserIds
  /\ IF storeOk
     THEN \E f \in OrderBy(TweetRows(v) \cup RetweetRows(v)) : feed' = f
     ELSE feed' = <<>>
  /\ feedViewer' = v
  /\ feedFault' = ~storeOk
  /\ UNCHANGED <<follows, tweets, retweets, now, requackLog, quackMsg>>
  /\ UNCHANGED <<allocVars, libVars, pageVars, sessVars>>

(***************************************************************************)
(* Store operations of the pages                                           *)
(***************************************************************************)
\* userPage option 3 (Follow The User) with Pond::follow
FollowTheUser(user_id, usr) ==
  /\ user_id \in UserIds /\ usr \in UserIds
  /\ LET getFollows == {f[2] : f \in {g \in follows : g[1] = user_id}}
         already_follows == \E flws \in getFollows : flws = usr \/ user_id = usr
     IN /\ ~already_follows
        /\ Cardinality(follows) < MaxFollows
        /\ follows' = follows \cup {<<user_id, usr>>}
  /\ NoFeed
  /\ UNCHANGED <<tweets, retweets, now, requackLog, quackMsg>>
  /\ UNCHANGED <<allocVars, libVars, pageVars, sessVars>>

\* Pond::unfollow
unfollow(user_id, follow_id) ==
  /\ <<user_id, follow_id>> \in follows
  /\ follows' = follows \ {<<user_id, follow_id>>}
  /\ NoFeed
  /\ UNCHANGED <<tweets, retweets, now, requackLog, quackMsg>>
  /\ UNCHANGED <<allocVars, libVars, pageVars, sessVars>>

\* postingPage with Pond::addQuack
addQuack(user_id) ==
  /\ user_id \in UserIds
  /\ Cardinality(tweets) < MaxTweets
  /\ LET tid == Cardinality(tweets) + 1 IN
     tweets' = tweets \cup {[tid |-> tid, writer_id |-> user_id, tdate |-> now.date,
                             ttime |-> now.time, text |-> TextTyped(tid)]}
  /\ NoFeed
  /\ UNCHANGED <<follows, retweets, now, requackLog, quackMsg>>
  /\ UNCHANGED <<allocVars, libVars, pageVars, sessVars>>

\* Pond::addRequack: 0 Success, 1 DuplicateSpam, -1 Error
RequackError == -1

addRequack(user_id, tid, storeOk) ==
  IF ~storeOk THEN [result |-> RequackError, rows |-> retweets]
  ELSE LET dup == \E r \in Range(retweets) :
                     r.tid = tid /\ r.retweeter_id = user_id
       IN [result |-> IF dup THEN 1 ELSE 0,
           rows |-> Append(retweets,
                      [tid |-> tid, retweeter_id |-> user_id, rdate |-> now.date,
                       rtime |-> now.time, spam |-> IF dup THEN 1 ELSE 0])]

RequackSuccessful == "Requack successful!"

AlreadyRequacked == "You've already requacked this, marked as spam..."

ErrorRequacking == "Error requacking, please try again."

\* quackPage with the first two messages exchanged
QuackPageMessageSwapped(joebiden) ==
  IF joebiden = 0 THEN AlreadyRequacked
  ELSE IF joebiden = 1 THEN RequackSuccessful
  ELSE ErrorRequacking

\* quackPage case '2': the message chosen for addRequack's result
QuackPageMessage(joebiden) ==
  IF joebiden = 0 THEN RequackSuccessful
  ELSE IF joebiden = 1 THEN AlreadyRequacked
  ELSE ErrorRequacking

RECURSIVE SumLen(_, _)
SumLen(log, keys) ==
  IF keys = {} THEN 0
  ELSE LET k == CHOOSE x \in keys : TRUE
       IN Len(log[k]) + SumLen(log, keys \ {k})

\* quackPage option 2 (Requack) by the logged-in user on quack tid
Requack(user_id, tid, storeOk) ==
  /\ user_id \in UserIds
  /\ \E t \in tweets : t.tid = tid
  /\ SumLen(requackLog, DOMAIN requackLog) < MaxRequacks
  /\ LET a == addRequack(user_id, tid, storeOk) IN
       /\ retweets' = a.rows
       /\ requackLog' = [requackLog EXCEPT ![<<user_id, tid>>] = Append(@, a.result)]
       /\ quackMsg' = [result |-> a.result, text |-> QuackPageMessage(a.result)]
  /\ NoFeed
  /\ UNCHANGED <<follows, tweets, now>>
  /\ UNCHANGED <<allocVars, libVars, pageVars, sessVars>>

\* time passes between two commands
Tick ==
  /\ \E i \in Instants : After(i, now) /\ now' = i
  /\ NoFeed
  /\ UNCHANGED <<follows, tweets, retweets, requackLog, quackMsg>>
  /\ UNCHANGED <<allocVars, libVars, pageVars, sessVars>>

(***************************************************************************)
(* Quacker::processFeed: the clamp of the feed window and the rows printed *)
(***************************************************************************)
PageStep == 5

NoMoreQuacks == "You Have No More Quacks Left To Display."

AlreadyNoQuacks == "You Are Already Not Displaying Any Quacks."

Max(a, b) == IF a >= b THEN a ELSE b

Min(a, b) == IF a <= b THEN a ELSE b

\* a print loop that skips nothing
PrintLoopFromFirst(upto) == 1 .. upto

\* the rows the print loop emits when it runs up to position upto:
\* position p is skipped when (upto - 5) >= p
PrintLoop(upto) == {p \in 1 .. upto : ~((upto - PageStep) >= p)}

\* the clamp with > in place of >=
ProcessFeedLate(fdc, err, maxQ) ==
  IF fdc > maxQ + PageStep
  THEN [fdc |-> Max(0, fdc - PageStep), error |-> NoMoreQuacks,
        shown |-> PrintLoop(maxQ), ids |-> maxQ]
  ELSE IF ~(fdc >= maxQ /\ fdc <= maxQ + 4) /\ ~(fdc < maxQ /\ fdc > 0)
          /\ fdc <= 0
  THEN [fdc |-> 0, error |-> IF fdc # 0 THEN AlreadyNoQuacks ELSE err,
        shown |-> {}, ids |-> 0]
  ELSE [fdc |-> fdc, error |-> err,
        shown |-> PrintLoop(Min(fdc, maxQ)), ids |-> Min(fdc, maxQ)]

\* fdc, err: FeedDisplayCount and error on entry; maxQ: feed.size().
\* ids is the length of feed_quack_ids on return.
ProcessFeed(fdc, err, maxQ) ==
  IF fdc >= maxQ + PageStep
  THEN [fdc |-> Max(0, fdc - PageStep), error |-> NoMoreQuacks,
        shown |-> PrintLoop(maxQ), ids |-> maxQ]
  ELSE IF ~(fdc >= maxQ /\ fdc <= maxQ + 4) /\ ~(fdc < maxQ /\ fdc > 0)
          /\ fdc <= 0
  THEN [fdc |-> 0, error |-> IF fdc # 0 THEN AlreadyNoQuacks ELSE err,
        shown |-> {}, ids |-> 0]
  ELSE [fdc |-> fdc, error |-> err,
        shown |-> PrintLoop(Min(fdc, maxQ)), ids |-> Min(fdc, maxQ)]

(***************************************************************************)
(* Lines typed at a row-selection prompt.                                  *)
(***************************************************************************)
MaxTotal == 12     \* largest feed / result set
RowBits  == 6      \* width of the int std::stoi returns (scaled down)

INT_MAX == Pow2(RowBits - 1) - 1

EmptyLine == [kind |-> "empty", value |-> 0]

\* a line that is not a positive decimal number
Junk == [kind |-> "text", value |-> 0]

\* the decimal digits of r, r >= 1
Digits(r) == [kind |-> "digits", value |-> r]

SelectionLines ==
  {EmptyLine, Junk}
    \cup {Digits(r) : r \in (1 .. MaxTotal + 1) \cup {INT_MAX, INT_MAX + 1}}

\* std::regex_match(input, "^[1-9]\d*$")
positive_integer_regex(input) == input.kind = "digits"

\* std::stoi: std::out_of_range is thrown for a number no int holds
stoi(input) == [thrown |-> input.value > INT_MAX, value |-> input.value]

\* the process after an exception no handler catches
Terminated == "terminate called after throwing an instance of 'std::out_of_range'"

NoSel == [made |-> FALSE, view |-> "main", input |-> EmptyLine,
          accepted |-> FALSE, opened |-> <<>>, displayed |-> {}]

NoTyped == [prompt |-> "none", empty |-> FALSE, line |-> <<>>,
            password |-> <<>>]

\* what a page step that calls no Pond writer and no login leaves alone
StoreFrame ==
  UNCHANGED <<allocVars, libVars, feedVars, session_user_id, logged_in, pwds>>

PageFrame ==
  /\ lastSel' = NoSel
  /\ typed' = NoTyped
  /\ UNCHANGED back
  /\ StoreFrame

(***************************************************************************)
(* Quacker::mainPage: one pass of the menu loop, from the command typed at *)
(* the prompt to the next prompt (the loop renders the feed first).        *)
(* No page deletes a row of follows, tweets or retweets (Pond::unfollow    *)
(* has no caller), so a later render of the same user's feed never finds   *)
(* fewer entries.                                                          *)
(***************************************************************************)
NoCmd == [cmd |-> "none", view |-> "main", from |-> 0]

\* a render that prints every row from the first one up to the window
RenderFromTop(fdc, err, maxQ) ==
  LET r == ProcessFeed(fdc, err, maxQ) IN
  /\ FeedDisplayCount' = r.fdc
  /\ error' = r.error
  /\ shown' = 1 .. Min(r.fdc, maxQ)
  /\ maxQuacks' = maxQ
  /\ rowI' = r.ids + 1

Render(fdc, err, maxQ) ==
  LET r == ProcessFeed(fdc, err, maxQ) IN
  /\ FeedDisplayCount' = r.fdc
  /\ error' = r.error
  /\ shown' = r.shown
  /\ maxQuacks' = maxQ
  /\ rowI' = r.ids + 1

\* option 1, See More Of My Feed
MainSeeMore ==
  /\ view = "main"
  /\ Render(FeedDisplayCount + PageStep, "", maxQuacks)
  /\ lastCmd' = [cmd |-> "more", view |-> "main", from |-> FeedDisplayCount]
  /\ UNCHANGED <<view, results, UserDisplayCount, listMsg>>
  /\ PageFrame

\* option 2, See Less Of My Feed
MainSeeLess ==
  /\ view = "main"
  /\ Render(FeedDisplayCount - PageStep, "", maxQuacks)
  /\ lastCmd' = [cmd |-> "less", view |-> "main", from |-> FeedDisplayCount]
  /\ UNCHANGED <<view, results, UserDisplayCount, listMsg>>
  /\ PageFrame

\* option 7 (new post) seen from the windows: the page runs and returns,
\* the message line is kept, the feed is fetched again (n entries)
MainOtherOption(n) ==
  /\ view = "main"
  /\ n >= maxQuacks
  /\ Render(FeedDisplayCount, error, n)
  /\ lastCmd' = NoCmd
  /\ UNCHANGED <<view, results, UserDisplayCount, listMsg>>
  /\ PageFrame

\* option 5: the row-selection prompt under the feed
MainSelect ==
  /\ view = "main"
  /\ view' = "feedSelect"
  /\ lastCmd' = NoCmd
  /\ UNCHANGED <<maxQuacks, FeedDisplayCount, error, results,
                 UserDisplayCount, listMsg, shown, rowI>>
  /\ PageFrame

\* option 5: the test on selection = stoi(input) - 1
FeedAccepts(selection, i) == ~(selection > i - 2 \/ selection < i - 6)

\* a line typed at the feed's row-selection prompt.  An accepted row opens
\* quackPage on feed_quack_ids[selection].
FeedSelect(input) ==
  /\ view = "feedSelect"
  /\ lastCmd' = NoCmd
  /\ typed' = NoTyped
  /\ StoreFrame
  /\ UNCHANGED <<results, UserDisplayCount, listMsg>>
  /\ LET sel == [made |-> TRUE, view |-> "main", input |-> input,
                 accepted |-> FALSE, opened |-> <<>>, displayed |-> shown]
         Stay == UNCHANGED <<maxQuacks, FeedDisplayCount, error, shown, rowI>>
     IN
     IF input = EmptyLine
     THEN /\ view' = "main"
          /\ Render(FeedDisplayCount, error, maxQuacks)
          /\ lastSel' = sel
          /\ UNCHANGED back
     ELSE IF ~positive_integer_regex(input)
     THEN /\ UNCHANGED view /\ Stay /\ lastSel' = sel /\ UNCHANGED back
     ELSE IF stoi(input).thrown
     THEN /\ view' = Terminated /\ Stay /\ lastSel' = sel /\ UNCHANGED back
     ELSE LET selection == stoi(input).value - 1 IN
          IF ~FeedAccepts(selection, rowI)
          THEN /\ UNCHANGED view /\ Stay /\ lastSel' = sel /\ UNCHANGED back
          ELSE /\ view' = "quack"
               /\ back' = Append(back, "main")
               /\ Stay
               /\ lastSel' = [sel EXCEPT !.accepted = TRUE,
                                         !.opened = <<selection>>]

\* a log out that leaves the session user id in place
LogoutKeepsUser ==
  /\ view = "main"
  /\ view' = "start"
  /\ FeedDisplayCount' = 5
  /\ error' = ""
  /\ logged_in' = FALSE
  /\ UNCHANGED session_user_id
  /\ maxQuacks' = 0 /\ shown' = {} /\ rowI' = 1
  /\ lastCmd' = [cmd |-> "logout", view |-> "main", from |-> FeedDisplayCount]
  /\ lastSel' = NoSel
  /\ typed' = NoTyped
  /\ UNCHANGED <<results, UserDisplayCount, listMsg, back, pwds>>
  /\ UNCHANGED <<allocVars, libVars, feedVars>>

\* option 8, Log Out
Logout ==
  /\ view = "main"
  /\ view' = "start"
  /\ FeedDisplayCount' = 5
  /\ error' = ""
  /\ logged_in' = FALSE
  /\ session_user_id' = <<>>
  /\ maxQuacks' = 0 /\ shown' = {} /\ rowI' = 1
  /\ lastCmd' = [cmd |-> "logout", view |-> "main", from |-> FeedDisplayCount]
  /\ lastSel' = NoSel
  /\ typed' = NoTyped
  /\ UNCHANGED <<results, UserDisplayCount, listMsg, back, pwds>>
  /\ UNCHANGED <<allocVars, libVars, feedVars>>

\* mainPage up to its loop: the locals are set, nothing is rendered yet.
\* from: the window size the session before ended with
mainPage(from) ==
  /\ view' = "mainEntry"
  /\ error' = ""
  /\ FeedDisplayCount' = 5
  /\ lastCmd' = [cmd |-> "query", view |-> "main", from |-> from]
  /\ UNCHANGED <<maxQuacks, shown, rowI, results, UserDisplayCount, listMsg>>

\* the first pass of mainPage's loop up to the prompt; n: feed.size()
MainFirstRender(n) ==
  /\ view = "mainEntry"
  /\ view' = "main"
  /\ Render(FeedDisplayCount, error, n)
  /\ lastCmd' = NoCmd
  /\ UNCHANGED <<results, UserDisplayCount, listMsg>>
  /\ PageFrame

\* a later login seen from the windows: mainPage starts again
Relogin ==
  /\ view = "start"
  /\ lastCmd.cmd = "logout"
  /\ mainPage(lastCmd.from)
  /\ PageFrame

(***************************************************************************)
(* The list pages: searchUsersPage, searchQuacksPage, followersPage.       *)
(* The three carry the same window code.  In "users" and "quacks",         *)
(* results = 0 is the search-term prompt with no list on the screen.       *)
(***************************************************************************)
ListViews == {"users", "quacks", "followers"}

NoMoreItems == "You Have No More Users To Display"

AlreadyAtMinimum == "You Are Already Showing No Users"

\* the for loop over results: row p = i-1 is skipped by one of the two tests
\* a list render that takes the rows from the window without the clamp
ListRenderUnclamped(udc, size) ==
  {p \in 1 .. size : p <= udc /\ p > udc - 5}

ListRender(udc, size) ==
  {p \in 1 .. size :
     ~( \/ ((udc < p \/ p + 1 <= udc - 4) /\ udc < size)
        \/ ((p + 1 <= size - 4) /\ udc >= size) )}

\* options 3, 4, 6 with a query that returns n > 0 rows
OpenList(v, n) ==
  /\ view = "main"
  /\ view' = v
  /\ results' = n
  /\ UserDisplayCount' = 5
  /\ listMsg' = ""
  /\ shown' = ListRender(5, n)
  /\ lastCmd' = [cmd |-> "query", view |-> v, from |-> UserDisplayCount]
  /\ UNCHANGED <<maxQuacks, FeedDisplayCount, error, rowI>>
  /\ PageFrame

\* a search page whose window outlives the result set
NewSearchKeepsWindow(n) ==
  /\ view \in {"users", "quacks"}
  /\ results' = n
  /\ UserDisplayCount' = UserDisplayCount
  /\ listMsg' = ""
  /\ shown' = ListRender(UserDisplayCount, n)
  /\ lastCmd' = [cmd |-> "query", view |-> view, from |-> UserDisplayCount]
  /\ UNCHANGED <<view, maxQuacks, FeedDisplayCount, error, rowI>>
  /\ PageFrame

\* a further search term typed in searchUsersPage / searchQuacksPage
NewSearch(n) ==
  /\ view \in {"users", "quacks"}
  /\ results' = n
  /\ UserDisplayCount' = 5
  /\ listMsg' = ""
  /\ shown' = ListRender(5, n)
  /\ lastCmd' = [cmd |-> "query", view |-> view, from |-> UserDisplayCount]
  /\ UNCHANGED <<view, maxQuacks, FeedDisplayCount, error, rowI>>
  /\ PageFrame

\* an M command that jumps to the end of the list
ListMoreToEnd ==
  /\ view \in ListViews
  /\ ~(5 > results)
  /\ IF UserDisplayCount < results
     THEN /\ UserDisplayCount' = results
          /\ listMsg' = ""
     ELSE /\ UserDisplayCount' = UserDisplayCount
          /\ listMsg' = NoMoreItems
  /\ shown' = ListRender(UserDisplayCount', results)
  /\ lastCmd' = [cmd |-> "more", view |-> view, from |-> UserDisplayCount]
  /\ UNCHANGED <<view, results, maxQuacks, FeedDisplayCount, error, rowI>>
  /\ PageFrame

\* the M command
ListMore ==
  /\ view \in ListViews
  /\ ~(5 > results)
  /\ IF UserDisplayCount < results
     THEN /\ UserDisplayCount' = UserDisplayCount + 5
          /\ listMsg' = ""
     ELSE /\ UserDisplayCount' = UserDisplayCount
          /\ listMsg' = NoMoreItems
  /\ shown' = ListRender(UserDisplayCount', results)
  /\ lastCmd' = [cmd |-> "more", view |-> view, from |-> UserDisplayCount]
  /\ UNCHANGED <<view, results, maxQuacks, FeedDisplayCount, error, rowI>>
  /\ PageFrame

\* an L command that does not stop at 0
ListLessNoFloor ==
  /\ view \in ListViews
  /\ ~(5 > results)
  /\ UserDisplayCount' = UserDisplayCount - 5
  /\ listMsg' = ""
  /\ shown' = ListRender(UserDisplayCount', results)
  /\ lastCmd' = [cmd |-> "less", view |-> view, from |-> UserDisplayCount]
  /\ UNCHANGED <<view, results, maxQuacks, FeedDisplayCount, error, rowI>>
  /\ PageFrame

\* the L command
ListLess ==
  /\ view \in ListViews
  /\ ~(5 > results)
  /\ IF UserDisplayCount > 0
     THEN /\ UserDisplayCount' = UserDisplayCount - 5
          /\ listMsg' = ""
     ELSE /\ UserDisplayCount' = UserDisplayCount
          /\ listMsg' = AlreadyAtMinimum
  /\ shown' = ListRender(UserDisplayCount', results)
  /\ lastCmd' = [cmd |-> "less", view |-> view, from |-> UserDisplayCount]
  /\ UNCHANGED <<view, results, maxQuacks, FeedDisplayCount, error, rowI>>
  /\ PageFrame

\* a list page that accepts every row of the result set
ListAcceptsLoaded(selection, udc, size) == selection + 1 <= size

\* the test on selection = stoi(input) - 1 when results.size() >= 5
ListAccepts(selection, udc, size) ==
  \/ (selection + 1 <= udc /\ selection + 1 > udc - 5) /\ udc < size
  \/ selection + 1 <= size /\ selection + 1 > size - 5 /\ udc >= size

\* the test when 5 > results.size(); i is size + 1 after the print loop
ListAcceptsSmall(selection, i, size) ==
  ~(selection > i - 2) /\ selection <= size

\* the item a list page opens for an accepted selection off by one
OpenedItemNext(selection) == selection + 1

\* the item opened for an accepted selection: results[selection]
OpenedItem(selection) == selection

\* the list is gone: back at the search-term prompt
ListClosed ==
  /\ results' = 0
  /\ UserDisplayCount' = 5
  /\ listMsg' = ""

TermPrompt ==
  /\ ListClosed
  /\ shown' = {}

\* a line typed at a list page's prompt other than M and L
ListSelect(input) ==
  /\ view \in ListViews
  /\ results >= 1
  /\ lastCmd' = NoCmd
  /\ typed' = NoTyped
  /\ StoreFrame
  /\ LET sel == [made |-> TRUE, view |-> view, input |-> input,
                 accepted |-> FALSE, opened |-> <<>>, displayed |-> shown]
         Stay == UNCHANGED <<maxQuacks, FeedDisplayCount, error, rowI,
                             results, UserDisplayCount, listMsg, shown>>
     IN
     IF input = EmptyLine
     THEN /\ lastSel' = sel
          /\ UNCHANGED back
          /\ IF view = "followers"
             THEN /\ view' = "main"
                  /\ ListClosed
                  /\ Render(FeedDisplayCount, error, maxQuacks)
             ELSE /\ UNCHANGED view
                  /\ TermPrompt
                  /\ UNCHANGED <<maxQuacks, FeedDisplayCount, error, rowI>>
     ELSE IF ~positive_integer_regex(input)
     THEN /\ UNCHANGED view /\ Stay /\ lastSel' = sel /\ UNCHANGED back
     ELSE IF stoi(input).thrown
     THEN /\ view' = Terminated /\ Stay /\ lastSel' = sel /\ UNCHANGED back
     ELSE LET selection == stoi(input).value - 1
              accepted == IF 5 > results
                          THEN ListAcceptsSmall(selection, results + 1, results)
                          ELSE ListAccepts(selection, UserDisplayCount, results)
          IN
          IF ~accepted
          THEN /\ UNCHANGED view /\ Stay /\ lastSel' = sel /\ UNCHANGED back
          ELSE /\ view' = IF view = "quacks" THEN "quack" ELSE "user"
               /\ back' = Append(back, view)
               /\ Stay
               /\ lastSel' = [sel EXCEPT !.accepted = TRUE,
                                         !.opened = <<OpenedItem(selection)>>]

\* a page opened from a list returns: a search page prompts for a term
\* again, followersPage returns as well and mainPage renders the feed again
\* (n entries)
ReturnToCaller(n) ==
  /\ back # <<>>
  /\ n >= maxQuacks
  /\ LET caller == back[Len(back)] IN
     /\ back' = SubSeq(back, 1, Len(back) - 1)
     /\ IF caller \in {"users", "quacks"}
        THEN /\ n = maxQuacks
             /\ view' = caller
             /\ TermPrompt
             /\ UNCHANGED <<maxQuacks, FeedDisplayCount, error, rowI>>
        ELSE /\ view' = "main"
             /\ ListClosed
             /\ Render(FeedDisplayCount, error, n)

\* quackPage option 3 (Return) and userPage option 5 (Return)
PageReturn(n) ==
  /\ view \in {"quack", "user"}
  /\ ReturnToCaller(n)
  /\ lastCmd' = NoCmd
  /\ lastSel' = NoSel
  /\ typed' = NoTyped
  /\ StoreFrame

(***************************************************************************)
(* Quacker::userPage.  hardstop is 3 when the page is entered.             *)
(***************************************************************************)
NoMoreUserQuacks == "This User Has No More Quacks To Diplay!"
AlreadyNoUserQuacks == "You Are Already Not Seeing Any Quacks!"
InvalidUserOption == "Invalid Input Entered [use: 1, 2, 3]."

\* what options 1, 2 and an unknown option leave alone
UserStays ==
  /\ lastSel' = NoSel
  /\ typed' = NoTyped
  /\ UNCHANGED <<view, maxQuacks, FeedDisplayCount, error, results,
                 UserDisplayCount, listMsg, shown, rowI, back>>
  /\ UNCHANGED <<proc, usrIsKey, tidIsKey, posts, lists, include, call, fmt,
                 pad, users_quacks>>
  /\ UNCHANGED <<allocVars, feedVars, session_user_id, logged_in, pwds>>

\* option 1, See More Of The Users Quacks
UserSeeMore ==
  /\ view = "user"
  /\ IF hardstop + 3 >= users_quacks + 3
     THEN /\ userError' = NoMoreUserQuacks
          /\ UNCHANGED hardstop
     ELSE /\ userError' = ""
          /\ hardstop' = hardstop + 3
  /\ lastCmd' = [cmd |-> "more", view |-> "user", from |-> hardstop]
  /\ UserStays

\* option 2, See Less Of The Users Quacks
UserSeeLess ==
  /\ view = "user"
  /\ IF hardstop = 0
     THEN /\ userError' = AlreadyNoUserQuacks
          /\ UNCHANGED hardstop
     ELSE /\ userError' = ""
          /\ hardstop' = hardstop - 3
  /\ lastCmd' = [cmd |-> "less", view |-> "user", from |-> hardstop]
  /\ UserStays

\* a menu line that is none of the options
UserOtherOption ==
  /\ view = "user"
  /\ userError' = InvalidUserOption
  /\ UNCHANGED hardstop
  /\ lastCmd' = NoCmd
  /\ UserStays

\* i when the loop that prints the user's quacks has ended; q: the number
\* of quacks of the user
\* i as if the print loop always ran up to hardstop
UserRowIOfWindow(q) == hardstop + 2

UserRowI(q) == IF q > hardstop THEN hardstop + 2 ELSE q + 1

\* the rows of the user's quacks the loop prints
UserRender(q) ==
  {p \in 1 .. q :
     /\ ~(p > hardstop)
     /\ ~(IF hardstop >= q THEN p <= q - 3 ELSE p <= hardstop - 3)}

UserAccepts(selection, i) == ~(selection > i - 2 \/ selection < i - 6)

\* option 4 shows the prompt
UserOption4 ==
  /\ view = "user"
  /\ view' = "userSelect"
  /\ lastCmd' = NoCmd
  /\ UNCHANGED <<maxQuacks, FeedDisplayCount, error, results,
                 UserDisplayCount, listMsg, shown, rowI>>
  /\ PageFrame

\* a line typed at the prompt of option 4; every path out of the prompt
\* ends userPage.  n: feed.size() when mainPage renders next
UserSelect(input, q, n) ==
  /\ view = "userSelect"
  /\ lastCmd' = NoCmd
  /\ typed' = NoTyped
  /\ StoreFrame
  /\ LET sel == [made |-> TRUE, view |-> "user", input |-> input,
                 accepted |-> FALSE, opened |-> <<>>,
                 displayed |-> UserRender(q)]
         Stay == UNCHANGED <<maxQuacks, FeedDisplayCount, error, rowI,
                             results, UserDisplayCount, listMsg, shown>>
     IN
     IF input = EmptyLine
     THEN /\ lastSel' = sel
          /\ ReturnToCaller(n)
     ELSE /\ n = maxQuacks
          /\ UNCHANGED back
          /\ Stay
          /\ IF ~positive_integer_regex(input)
             THEN UNCHANGED view /\ lastSel' = sel
             ELSE IF stoi(input).thrown
             THEN view' = Terminated /\ lastSel' = sel
             ELSE LET selection == stoi(input).value - 1 IN
                  IF ~UserAccepts(selection, UserRowI(q))
                  THEN UNCHANGED view /\ lastSel' = sel
                  ELSE /\ view' = "quack"
                       /\ lastSel' = [sel EXCEPT !.accepted = TRUE,
                                                 !.opened = <<selection>>]

\* the list page returns to mainPage, whose loop renders the feed again
\* (n entries); options 3 and 4 clear the message line, option 6 keeps it
CloseList(n) ==
  /\ view \in ListViews
  /\ n >= maxQuacks
  /\ view' = "main"
  /\ results' = 0
  /\ UserDisplayCount' = 5
  /\ listMsg' = ""
  /\ Render(FeedDisplayCount, IF view = "followers" THEN error ELSE "", n)
  /\ lastCmd' = NoCmd
  /\ PageFrame

(***************************************************************************)
(* The text prompts.  A line is the sequence of its characters.            *)
(***************************************************************************)
MaxFeed == 6       \* largest feed in SpecSession
MaxHits == 2       \* longest result list in SpecSession

TextLines == {<<>>, <<" ">>, <<" ", "q">>}

EmailLines == {<<>>, <<"d", "@", "u", ".", "c">>, <<"d">>}

PhoneLines ==
  {<<>>, <<"0", "1", "2", "-", "3", "4", "5", "-", "6", "7", "8", "9">>,
   <<"5", "1", "0">>}

\* std::isdigit and the value of a digit
DigitValue ==
  [c \in {"0", "1", "2", "3", "4", "5", "6", "7", "8", "9"} |->
     CASE c = "0" -> 0 [] c = "1" -> 1 [] c = "2" -> 2 [] c = "3" -> 3
       [] c = "4" -> 4 [] c = "5" -> 5 [] c = "6" -> 6 [] c = "7" -> 7
       [] c = "8" -> 8 [] c = "9" -> 9]

PasswordLines == {<<>>, <<"p">>}

\* a line strtol reads to its end as the number v
IntegerLine(v) == [kind |-> "integer", value |-> v]

LoginLines ==
  {EmptyLine, Junk} \cup {IntegerLine(v) : v \in Ids \cup {INT_MAX + 1}}

\* Quacker::isID
isID(str) == str.kind \in {"integer", "digits"}

RECURSIVE DropLeading(_)
DropLeading(str) ==
  IF str # <<>> /\ str[1] = " " THEN DropLeading(Tail(str)) ELSE str

RECURSIVE DropTrailing(_)
DropTrailing(str) ==
  IF str # <<>> /\ str[Len(str)] = " "
  THEN DropTrailing(SubSeq(str, 1, Len(str) - 1))
  ELSE str

\* Quacker::trim
trim(str) == DropTrailing(DropLeading(str))

\* Quacker::isValidEmail: something, an @, a dotted host name
isValidEmail(email) ==
  \E at \in 2 .. Len(email) :
    /\ email[at] = "@"
    /\ \A k \in 1 .. at - 1 : email[k] \notin {"@", " "}
    /\ \E dot \in at + 2 .. Len(email) - 1 :
         /\ email[dot] = "."
         /\ \A k \in at + 1 .. Len(email) : email[k] \notin {"@", " "}

RECURSIVE DigitsOf(_)
DigitsOf(input) ==
  IF input = <<>> THEN <<>>
  ELSE (IF input[1] \in DOMAIN DigitValue THEN <<input[1]>> ELSE <<>>)
         \o DigitsOf(Tail(input))

RECURSIVE stoll(_)
stoll(digits) ==
  IF digits = <<>> THEN 0
  ELSE 10 * stoll(SubSeq(digits, 1, Len(digits) - 1)) + DigitValue[digits[Len(digits)]]

\* Quacker::isValidPhoneNumber
isValidPhoneNumber(input) ==
  LET digits == DigitsOf(input) IN
  IF Len(digits) < 10 \/ Len(digits) > 11 THEN -1 ELSE stoll(digits)

\* what a prompt read: the line, and whether the line is the empty string
Typed(prompt, line, empty) ==
  [prompt |-> prompt, empty |-> empty, line |-> line, password |-> <<>>]

\* a step that stays on its page and leaves the windows alone
SamePage ==
  UNCHANGED <<view, maxQuacks, FeedDisplayCount, error, results,
              UserDisplayCount, listMsg, shown, rowI, back>>

(***************************************************************************)
(* Quacker::startPage                                                      *)
(***************************************************************************)
StartOption(select) ==
  /\ view = "start"
  /\ select \in {"1", "2", "3"}
  /\ view' = CASE select = "1" -> "login"
               [] select = "2" -> "signup"
               [] select = "3" -> "exit"
  /\ lastCmd' = NoCmd
  /\ UNCHANGED <<maxQuacks, FeedDisplayCount, error, results,
                 UserDisplayCount, listMsg, shown, rowI>>
  /\ PageFrame

(***************************************************************************)
(* Pond::checkLogin and Quacker::loginPage                                 *)
(***************************************************************************)
\* a login check that reads the usr column only
checkLoginById(user_id, password, storeOk) ==
  LET rows == {r \in pwds : r[1] = user_id} IN
  IF storeOk /\ rows # {} THEN <<(CHOOSE r \in rows : TRUE)[1]>> ELSE <<>>

\* SELECT * FROM users WHERE usr = ? AND pwd = ?; column 0 of the first row.
\* storeOk: sqlite3_prepare_v2 returns SQLITE_OK
checkLogin(user_id, password, storeOk) ==
  LET rows == {r \in pwds : r[1] = user_id /\ r[2] = password} IN
  IF storeOk /\ rows # {} THEN <<(CHOOSE r \in rows : TRUE)[1]>> ELSE <<>>

\* one pass of loginPage's loop
loginPage(user_id_str) ==
  /\ view = "login"
  /\ lastSel' = NoSel
  /\ UNCHANGED <<allocVars, libVars, feedVars, pwds>>
  /\ IF user_id_str = EmptyLine
     THEN /\ view' = "start"
          /\ typed' = Typed("login id", user_id_str, user_id_str = EmptyLine)
          /\ lastCmd' = NoCmd
          /\ UNCHANGED <<session_user_id, logged_in>>
          /\ UNCHANGED <<maxQuacks, FeedDisplayCount, error, results,
                         UserDisplayCount, listMsg, shown, rowI, back>>
     ELSE IF ~isID(user_id_str) \/ stoi(user_id_str).thrown
     THEN /\ typed' = Typed("login id", user_id_str, user_id_str = EmptyLine)
          /\ lastCmd' = NoCmd
          /\ UNCHANGED <<session_user_id, logged_in>>
          /\ SamePage
     ELSE \E password \in PasswordLines, storeOk \in BOOLEAN :
            LET user_id == stoi(user_id_str).value
                ptr == checkLogin(user_id, password, storeOk)
            IN /\ typed' = [Typed("login", user_id_str, FALSE)
                              EXCEPT !.password = password]
               /\ session_user_id' = ptr
               /\ UNCHANGED back
               /\ IF ptr = <<>>
                  THEN /\ UNCHANGED logged_in
                       /\ lastCmd' = NoCmd
                       /\ UNCHANGED <<view, maxQuacks, FeedDisplayCount, error,
                                      results, UserDisplayCount, listMsg,
                                      shown, rowI>>
                  ELSE /\ logged_in' = TRUE
                       /\ mainPage(FeedDisplayCount)

(***************************************************************************)
(* Quacker::signupPage with Pond::addUser                                  *)
(***************************************************************************)
\* signupPage returns to startPage
SignupReturn(prompt, line) ==
  /\ view' = "start"
  /\ typed' = Typed(prompt, line, line = <<>>)
  /\ lastCmd' = NoCmd
  /\ UNCHANGED <<session_user_id, logged_in, pwds, allocVars, libVars>>
  /\ UNCHANGED <<maxQuacks, FeedDisplayCount, error, results,
                 UserDisplayCount, listMsg, shown, rowI, back>>

\* signupPage starts its loop again
SignupAgain(prompt, line) ==
  /\ typed' = Typed(prompt, line, line = <<>>)
  /\ lastCmd' = NoCmd
  /\ UNCHANGED <<session_user_id, logged_in, pwds, allocVars, libVars>>
  /\ SamePage

\* one pass of signupPage's loop, up to the prompt that follows addUser
signupPage ==
  /\ view = "signup"
  /\ lastSel' = NoSel
  /\ UNCHANGED <<feedVars, libVars>>
  /\ \E name \in TextLines :
     IF trim(name) = <<>> THEN SignupReturn("signup name", name)
     ELSE \E email \in EmailLines :
     IF email = <<>> THEN SignupReturn("signup email", email)
     ELSE IF ~isValidEmail(email) THEN SignupAgain("signup email", email)
     ELSE \E phone_str \in PhoneLines :
     IF phone_str = <<>> THEN SignupReturn("signup phone", phone_str)
     ELSE IF isValidPhoneNumber(phone_str) = -1
     THEN SignupAgain("signup phone", phone_str)
     ELSE \E password \in PasswordLines :
     IF password = <<>> THEN SignupReturn("signup password", password)
     ELSE \E fault \in {"none", "insert_step"} :
       LET g == get_unique_user_id(users, fault)
           inserted == g.ok /\ fault \notin {"insert_prepare", "insert_step"}
           new_user_id == IF inserted THEN <<g.id>> ELSE <<>>
       IN /\ nAdds < MaxAdds
          /\ users' = IF inserted THEN [users EXCEPT ![g.id] = @ + 1] ELSE users
          /\ pwds' = IF inserted THEN pwds \cup {<<g.id, password>>} ELSE pwds
          /\ ret' = [called |-> TRUE, fault |-> fault, ok |-> g.ok,
                     id |-> g.id, created |-> inserted, before |-> users]
          /\ nAdds' = nAdds + 1
          /\ typed' = Typed("signup password", password, FALSE)
          /\ UNCHANGED back
          /\ lastCmd' = NoCmd
          /\ UNCHANGED <<maxQuacks, FeedDisplayCount, error, results,
                         UserDisplayCount, listMsg, shown, rowI>>
          /\ UNCHANGED logged_in
          /\ IF new_user_id # <<>>
             THEN /\ session_user_id' = new_user_id
                  /\ view' = "created"
             ELSE /\ UNCHANGED <<session_user_id, view>>

\* an acknowledgement that enters mainPage without setting logged_in
signupEnterNoFlag ==
  /\ view = "created"
  /\ UNCHANGED logged_in
  /\ mainPage(FeedDisplayCount)
  /\ lastSel' = NoSel
  /\ UNCHANGED <<session_user_id, pwds, back, typed>>
  /\ UNCHANGED <<allocVars, libVars, feedVars>>

\* Enter at "Account created! Press Enter to log in... ": signupPage sets
\* logged_in and calls mainPage
signupEnter ==
  /\ view = "created"
  /\ logged_in' = TRUE
  /\ mainPage(FeedDisplayCount)
  /\ lastSel' = NoSel
  /\ UNCHANGED <<session_user_id, pwds, back, typed>>
  /\ UNCHANGED <<allocVars, libVars, feedVars>>

(***************************************************************************)
(* The pages under mainPage that read a line of text.                      *)
(***************************************************************************)
\* options 3, 4 and 7: the page is entered and shows its prompt
MainOption(select) ==
  /\ view = "main"
  /\ select \in {"3", "4", "7"}
  /\ view' = CASE select = "3" -> "users"
               [] select = "4" -> "quacks"
               [] select = "7" -> "posting"
  /\ lastCmd' = NoCmd
  /\ UNCHANGED <<maxQuacks, FeedDisplayCount, error, results,
                 UserDisplayCount, listMsg, shown, rowI>>
  /\ PageFrame

\* one pass of the outer loop of searchUsersPage / searchQuacksPage;
\* n: results.size()
searchPage(search_term, n) ==
  /\ view \in {"users", "quacks"}
  /\ results = 0
  /\ typed' = Typed("search term", search_term, search_term = <<>>)
  /\ lastSel' = NoSel
  /\ UNCHANGED back
  /\ StoreFrame
  /\ IF trim(search_term) = <<>>
     THEN /\ n = 0
          /\ view' = "main"
          /\ Render(FeedDisplayCount, "", maxQuacks)
          /\ lastCmd' = NoCmd
          /\ UNCHANGED <<results, UserDisplayCount, listMsg>>
     ELSE IF n = 0
     THEN /\ lastCmd' = NoCmd
          /\ UNCHANGED <<view, maxQuacks, FeedDisplayCount, error, results,
                         UserDisplayCount, listMsg, shown, rowI>>
     ELSE /\ results' = n
          /\ UserDisplayCount' = 5
          /\ listMsg' = ""
          /\ shown' = ListRender(5, n)
          /\ lastCmd' = [cmd |-> "query", view |-> view,
                         from |-> UserDisplayCount]
          /\ UNCHANGED <<view, maxQuacks, FeedDisplayCount, error, rowI>>

\* the row Pond::addQuack inserts
QuackRow(user_id, text) ==
  [tid |-> Cardinality(tweets) + 1, writer_id |-> user_id,
   tdate |-> now.date, ttime |-> now.time, text |-> text]

\* one pass of postingPage's loop; ok: addQuack returns a quack.
\* n: feed.size() when mainPage renders next
postingPage(quack_text, ok, n) ==
  /\ view = "posting"
  /\ typed' = Typed("quack text", quack_text, quack_text = <<>>)
  /\ lastSel' = NoSel
  /\ lastCmd' = NoCmd
  /\ UNCHANGED <<allocVars, libVars, session_user_id, logged_in, pwds, back>>
  /\ UNCHANGED <<follows, retweets, now, feed, feedViewer, requackLog, quackMsg,
                 feedFault>>
  /\ UNCHANGED <<results, UserDisplayCount, listMsg>>
  /\ IF trim(quack_text) = <<>>
     THEN /\ ok
          /\ n >= maxQuacks
          /\ view' = "main"
          /\ Render(FeedDisplayCount, error, n)
          /\ UNCHANGED tweets
     ELSE /\ n = maxQuacks
          /\ Cardinality(tweets) < MaxTweets
          /\ tweets' = IF ok
                       THEN tweets \cup {QuackRow(session_user_id[1],
                                                  trim(quack_text))}
                       ELSE tweets
          /\ UNCHANGED <<view, maxQuacks, FeedDisplayCount, error, shown, rowI>>

\* quackPage option 1, Reply
QuackReply ==
  /\ view = "quack"
  /\ view' = "reply"
  /\ back' = Append(back, "quack")
  /\ lastCmd' = NoCmd
  /\ lastSel' = NoSel
  /\ typed' = NoTyped
  /\ UNCHANGED <<maxQuacks, FeedDisplayCount, error, results,
                 UserDisplayCount, listMsg, shown, rowI>>
  /\ StoreFrame

\* an addReply row with an id no stored tweet has
ReplyRowFresh(user_id, reply_tweet_id, text) ==
  [tid |-> Cardinality(tweets) + 1, writer_id |-> user_id,
   tdate |-> now.date, ttime |-> now.date, text |-> text,
   replyto_tid |-> reply_tweet_id]

\* the row Pond::addReply inserts
ReplyRow(user_id, reply_tweet_id, text) ==
  [tid |-> 1, writer_id |-> user_id, tdate |-> now.date, ttime |-> now.date,
   text |-> text, replyto_tid |-> reply_tweet_id]

\* a reply page without the test for the empty line
replyPageNoCancel(reply_text, ok) ==
  /\ view = "reply"
  /\ typed' = Typed("reply text", reply_text, reply_text = <<>>)
  /\ lastSel' = NoSel
  /\ lastCmd' = NoCmd
  /\ UNCHANGED <<allocVars, libVars, session_user_id, logged_in, pwds>>
  /\ UNCHANGED <<follows, retweets, now, feed, feedViewer, requackLog, quackMsg,
                 feedFault>>
  /\ UNCHANGED <<maxQuacks, FeedDisplayCount, error, results,
                 UserDisplayCount, listMsg, shown, rowI>>
  /\ Cardinality(tweets) < MaxTweets
  /\ IF ok
     THEN /\ \E tid \in 1 .. MaxTweets :
               tweets' = tweets \cup {ReplyRow(session_user_id[1], tid,
                                               reply_text)}
          /\ view' = "quack"
          /\ back' = SubSeq(back, 1, Len(back) - 1)
     ELSE UNCHANGED <<tweets, view, back>>

\* one pass of replyPage's loop; ok: addReply returns true
replyPage(reply_text, ok) ==
  /\ view = "reply"
  /\ typed' = Typed("reply text", reply_text, reply_text = <<>>)
  /\ lastSel' = NoSel
  /\ lastCmd' = NoCmd
  /\ UNCHANGED <<allocVars, libVars, session_user_id, logged_in, pwds>>
  /\ UNCHANGED <<follows, retweets, now, feed, feedViewer, requackLog, quackMsg,
                 feedFault>>
  /\ UNCHANGED <<maxQuacks, FeedDisplayCount, error, results,
                 UserDisplayCount, listMsg, shown, rowI>>
  /\ IF reply_text = <<>>
     THEN /\ ok
          /\ view' = "quack"
          /\ back' = SubSeq(back, 1, Len(back) - 1)
          /\ UNCHANGED tweets
     ELSE /\ Cardinality(tweets) < MaxTweets
          /\ IF ok
             THEN /\ \E tid \in 1 .. MaxTweets :
                       tweets' = tweets \cup {ReplyRow(session_user_id[1], tid,
                                                       reply_text)}
                  /\ view' = "quack"
                  /\ back' = SubSeq(back, 1, Len(back) - 1)
             ELSE UNCHANGED <<tweets, view, back>>

(***************************************************************************)
(* Values of the variables a specification does not exercise.              *)
(***************************************************************************)
NoMsg == [result |-> 0, text |-> ""]

FeedIdle ==
  /\ follows = {} /\ tweets = {} /\ retweets = <<>>
  /\ now = [date |-> 1, time |-> 1]
  /\ feed = <<>> /\ feedViewer = 0 /\ feedFault = FALSE
  /\ requackLog = <<>> /\ quackMsg = NoMsg

PageIdle ==
  /\ view = "main" /\ maxQuacks = 0 /\ FeedDisplayCount = 5 /\ error = ""
  /\ results = 0 /\ UserDisplayCount = 5 /\ listMsg = ""
  /\ shown = {} /\ lastCmd = NoCmd /\ rowI = 1 /\ lastSel = NoSel

SessIdle ==
  /\ session_user_id = <<>> /\ logged_in = FALSE /\ pwds = {}
  /\ back = <<>> /\ typed = NoTyped

\* the two sessions of SpecRace
Sessions == {"a", "b"}

NoProc == [pc |-> "idle", fault |-> "none", ok |-> FALSE, id |-> 0,
           seen |-> [k \in Ids |-> 0], created |-> FALSE, refused |-> FALSE,
           second |-> FALSE, overlap |-> FALSE]

RaceIdle == proc = [p \in Sessions |-> NoProc] /\ usrIsKey = FALSE

NoLibCall == [op |-> "none", owner |-> 0, lname |-> "", tid |-> 0,
              result |-> FALSE, inserted |-> FALSE]

ListsIdle ==
  /\ posts = <<>> /\ lists = {} /\ include = <<>> /\ call = NoLibCall
  /\ tidIsKey = FALSE

NoFmt == [text |-> <<>>, line_width |-> 0, out |-> <<>>, done |-> FALSE]

FmtIdle == fmt = NoFmt

UserIdle == hardstop = 3 /\ users_quacks = 0 /\ userError = ""

NoPad == [line |-> <<>>, name |-> <<>>, accepted |-> FALSE, padding |-> 0,
          thrown |-> FALSE, done |-> FALSE]

PadIdle == pad = NoPad

LibIdle == RaceIdle /\ ListsIdle /\ FmtIdle /\ UserIdle /\ PadIdle

(***************************************************************************)
(* SpecAlloc: addUser on a users table loaded by Pond::loadDatabase.       *)
(***************************************************************************)
InitAlloc ==
  /\ users \in [Ids -> {0, 1}]
  /\ ret = NoCall
  /\ nAdds = 0
  /\ FeedIdle
  /\ PageIdle
  /\ SessIdle
  /\ LibIdle

NextAlloc == \E fault \in Faults : addUser(fault)

SpecAlloc == InitAlloc /\ [][NextAlloc]_vars

(***************************************************************************)
(* SpecPage: the windows of the feed and of the list pages, from login.    *)
(***************************************************************************)
AllocIdle ==
  /\ users = [k \in Ids |-> 0] /\ ret = NoCall /\ nAdds = 0

InitPage ==
  /\ AllocIdle
  /\ FeedIdle
  /\ view = "main"
  /\ \E n \in 0 .. MaxTotal :
       LET r == ProcessFeed(5, "", n) IN
       /\ maxQuacks = n
       /\ FeedDisplayCount = r.fdc
       /\ error = r.error
       /\ shown = r.shown
       /\ rowI = r.ids + 1
  /\ results = 0 /\ UserDisplayCount = 5 /\ listMsg = ""
  /\ lastCmd = NoCmd /\ lastSel = NoSel
  /\ SessIdle
  /\ LibIdle

NextPage ==
  \/ MainSeeMore
  \/ MainSeeLess
  \/ \E n \in 0 .. MaxTotal : MainOtherOption(n)
  \/ \E v \in ListViews, n \in 1 .. MaxTotal : OpenList(v, n)
  \/ \E n \in 1 .. MaxTotal : NewSearch(n)
  \/ ListMore
  \/ ListLess
  \/ \E n \in 0 .. MaxTotal : CloseList(n)
  \/ MainSelect
  \/ \E input \in SelectionLines : FeedSelect(input)
  \/ \E input \in SelectionLines : ListSelect(input)
  \/ \E n \in 0 .. MaxTotal : PageReturn(n)
  \/ Logout
  \/ Relogin
  \/ \E n \in 0 .. MaxTotal : MainFirstRender(n)

SpecPage == InitPage /\ [][NextPage]_vars

(***************************************************************************)
(* SpecFeed: NumUsers signed-up users on an empty store.                   *)
(***************************************************************************)
InitFeed ==
  /\ users = [k \in Ids |-> IF k \in 1 .. NumUsers THEN 1 ELSE 0]
  /\ ret = NoCall /\ nAdds = 0
  /\ follows = {} /\ tweets = {} /\ retweets = <<>>
  /\ now = [date |-> 1, time |-> 1]
  /\ feed = <<>> /\ feedViewer = 0 /\ feedFault = FALSE
  /\ requackLog = [k \in (1 .. NumUsers) \X (1 .. MaxTweets) |-> <<>>]
  /\ quackMsg = NoMsg
  /\ PageIdle
  /\ SessIdle
  /\ LibIdle

NextFeed ==
  \/ \E u, v \in UserIds : FollowTheUser(u, v)
  \/ \E u, v \in UserIds : unfollow(u, v)
  \/ \E u \in UserIds : addQuack(u)
  \/ \E u \in UserIds, t \in 1 .. MaxTweets, ok \in BOOLEAN : Requack(u, t, ok)
  \/ Tick
  \/ \E v \in UserIds, storeOk \in BOOLEAN : getFeed(v, storeOk)

SpecFeed == InitFeed /\ [][NextFeed]_vars

(***************************************************************************)
(* SpecSession: the program from its start page, on an empty store.        *)
(***************************************************************************)
SessionLines == {EmptyLine, Junk, Digits(1), Digits(INT_MAX + 1)}

\* feed.size() at a render of the main page
FeedSizes == {0, 1, MaxFeed}

InitSession ==
  /\ AllocIdle
  /\ FeedIdle
  /\ view = "start" /\ maxQuacks = 0 /\ FeedDisplayCount = 5 /\ error = ""
  /\ results = 0 /\ UserDisplayCount = 5 /\ listMsg = ""
  /\ shown = {} /\ lastCmd = NoCmd /\ rowI = 1 /\ lastSel = NoSel
  /\ SessIdle
  /\ LibIdle

NextSession ==
  \/ \E select \in {"1", "2", "3"} : StartOption(select)
  \/ \E user_id_str \in LoginLines : loginPage(user_id_str)
  \/ signupPage
  \/ signupEnter
  \/ \E n \in FeedSizes : MainFirstRender(n)
  \/ MainSeeMore
  \/ MainSeeLess
  \/ \E select \in {"3", "4", "7"} : MainOption(select)
  \/ \E n \in 1 .. MaxHits : OpenList("followers", n)
  \/ \E search_term \in TextLines, n \in 0 .. MaxHits :
       searchPage(search_term, n)
  \/ \E quack_text \in TextLines, ok \in BOOLEAN, n \in FeedSizes :
       postingPage(quack_text, ok, n)
  \/ MainSelect
  \/ \E input \in SessionLines : FeedSelect(input)
  \/ \E input \in SessionLines : ListSelect(input)
  \/ \E n \in FeedSizes : PageReturn(n)
  \/ UserOption4
  \/ \E input \in SessionLines, q \in 0 .. MaxHits, n \in FeedSizes :
       UserSelect(input, q, n)
  \/ QuackReply
  \/ \E reply_text \in TextLines, ok \in BOOLEAN : replyPage(reply_text, ok)
  \/ Logout

SpecSession == InitSession /\ [][NextSession]_vars

(***************************************************************************)
(* Pond::addUser in two sessions on one store.  A session's call is two    *)
(* steps: the scan made by get_unique_user_id, then the INSERT.            *)
(***************************************************************************)
ScanFaults   == {"none", "scan", "negscan"}
InsertFaults == {"none", "insert_prepare", "insert_step"}

RaceFrame ==
  /\ UNCHANGED <<ret, usrIsKey, tidIsKey, posts, lists, include, call, fmt>>
  /\ UNCHANGED <<userVars, pad>>
  /\ UNCHANGED <<feedVars, pageVars, sessVars>>

\* a scan that also stores the id it returns
ScanReserves(p, fault) ==
  /\ nAdds < MaxAdds
  /\ proc[p].pc = "idle"
  /\ LET g == get_unique_user_id(users, fault) IN
     /\ proc' = [proc EXCEPT ![p] =
                   [NoProc EXCEPT !.pc = IF g.ok THEN "scanned" ELSE "done",
                                  !.fault = fault, !.ok = g.ok, !.id = g.id,
                                  !.seen = users]]
     /\ users' = IF g.ok THEN [users EXCEPT ![g.id] = @ + 1] ELSE users
  /\ nAdds' = nAdds + 1
  /\ RaceFrame

\* addUser up to the return of get_unique_user_id, in session p; a false
\* return ends the call with nullptr
Scan(p, fault) ==
  /\ nAdds < MaxAdds
  /\ proc[p].pc = "idle"
  /\ LET g == get_unique_user_id(users, fault) IN
     proc' = [proc EXCEPT ![p] =
                [NoProc EXCEPT !.pc = IF g.ok THEN "scanned" ELSE "done",
                               !.fault = fault, !.ok = g.ok, !.id = g.id,
                               !.seen = users]]
  /\ nAdds' = nAdds + 1
  /\ UNCHANGED users
  /\ RaceFrame

\* the rest of addUser in session p: prepare, bind and step the INSERT.
\* A store whose usr column is a key refuses a row whose usr is stored
Insert(p, fault) ==
  /\ proc[p].pc = "scanned"
  /\ LET id      == proc[p].id
         refused == fault = "none" /\ usrIsKey /\ users[id] > 0
         created == fault = "none" /\ ~refused
         others  == Sessions \ {p}
     IN /\ users' = IF created THEN [users EXCEPT ![id] = @ + 1] ELSE users
        /\ proc' = [proc EXCEPT ![p] =
                      [@ EXCEPT !.pc = "done", !.fault = fault,
                                !.created = created, !.refused = refused,
                                !.second = \E q \in others :
                                             proc[q].pc = "done" /\ proc[q].ok,
                                !.overlap = \A q \in others :
                                              \/ proc[q].pc = "scanned"
                                              \/ /\ proc[q].pc = "done"
                                                 /\ proc[q].overlap]]
  /\ UNCHANGED nAdds
  /\ RaceFrame

(***************************************************************************)
(* SpecRace: two sessions sign up on a users table that holds the ids      *)
(* 1..m, but for at most one gap, and possibly INT32_MIN.                  *)
(***************************************************************************)
RaceTables ==
  {[k \in Ids |-> IF \/ (k \in 1 .. m /\ k # g)
                     \/ (neg /\ k = INT32_MIN)
                  THEN 1 ELSE 0] :
     m \in 0 .. INT32_MAX, g \in 0 .. INT32_MAX, neg \in BOOLEAN}

InitRace ==
  /\ users \in RaceTables
  /\ ret = NoCall
  /\ nAdds = 0
  /\ proc = [p \in Sessions |-> NoProc]
  /\ usrIsKey \in BOOLEAN
  /\ ListsIdle
  /\ FmtIdle
  /\ PadIdle
  /\ UserIdle
  /\ FeedIdle
  /\ PageIdle
  /\ SessIdle

NextRace ==
  \/ \E p \in Sessions, fault \in ScanFaults : Scan(p, fault)
  \/ \E p \in Sessions, fault \in InsertFaults : Insert(p, fault)

SpecRace == InitRace /\ [][NextRace]_vars

(***************************************************************************)
(* Pond::addPost, Pond::createList, Pond::addToList                        *)
(***************************************************************************)
MaxRows == 3       \* rows the posts, lists and include tables hold together

ListOwners == 1 .. NumUsers
ListNames  == {"a", "b"}
TweetIds   == 1 .. MaxTweets

\* what sqlite3_step returns for an INSERT statement: SQLITE_DONE when the
\* row was stored, an error code when the store refused it
InsertSteps == {"SQLITE_DONE", "SQLITE_CONSTRAINT"}

RowsLeft ==
  Len(posts) + Cardinality(lists) + Len(include) + Cardinality(tweets)
    < MaxRows

LibFrame ==
  /\ UNCHANGED <<proc, usrIsKey, tidIsKey, fmt, pad, userVars>>
  /\ UNCHANGED <<allocVars, feedVars, pageVars, sessVars>>

\* prepared: sqlite3_prepare_v2 returns SQLITE_OK; step: what sqlite3_step
\* returns
addPost(tweet_id, user_id, prepared, step) ==
  /\ RowsLeft
  /\ LET inserted   == prepared /\ step = "SQLITE_DONE"
         post_added == prepared /\ step = "SQLITE_ROW"
     IN /\ posts' = IF inserted
                    THEN Append(posts, [tid |-> tweet_id, writer_id |-> user_id,
                                        text |-> "q", tdate |-> now.date,
                                        ttime |-> now.time])
                    ELSE posts
        /\ call' = [op |-> "addPost", owner |-> user_id, lname |-> "",
                    tid |-> tweet_id, result |-> post_added,
                    inserted |-> inserted]
  /\ UNCHANGED <<lists, include>>
  /\ LibFrame

createList(user_id, list_name, prepared, step) ==
  /\ RowsLeft
  /\ LET list_created == prepared /\ step = "SQLITE_DONE"
     IN /\ lists' = IF list_created
                    THEN lists \cup {<<user_id, list_name>>}
                    ELSE lists
        /\ call' = [op |-> "createList", owner |-> user_id,
                    lname |-> list_name, tid |-> 0, result |-> list_created,
                    inserted |-> list_created]
  /\ UNCHANGED <<posts, include>>
  /\ LibFrame

\* SELECT 1 FROM lists WHERE owner_id = ? AND lname = ?
listExists(list_name, user_id, prepared) ==
  prepared /\ <<user_id, list_name>> \in lists

\* an addToList without the existence check
addToListUnchecked(list_name, tweet_id, user_id, looked, prepared, step) ==
  /\ RowsLeft
  /\ LET added_to_list == prepared /\ step = "SQLITE_DONE"
     IN /\ include' = IF added_to_list
                      THEN Append(include, <<user_id, list_name, tweet_id>>)
                      ELSE include
        /\ call' = [op |-> "addToList", owner |-> user_id,
                    lname |-> list_name, tid |-> tweet_id,
                    result |-> added_to_list, inserted |-> added_to_list]
  /\ UNCHANGED <<posts, lists>>
  /\ LibFrame

addToList(list_name, tweet_id, user_id, looked, prepared, step) ==
  /\ RowsLeft
  /\ LET added_to_list == /\ listExists(list_name, user_id, looked)
                          /\ prepared
                          /\ step = "SQLITE_DONE"
     IN /\ include' = IF added_to_list
                      THEN Append(include, <<user_id, list_name, tweet_id>>)
                      ELSE include
        /\ call' = [op |-> "addToList", owner |-> user_id,
                    lname |-> list_name, tid |-> tweet_id,
                    result |-> added_to_list, inserted |-> added_to_list]
  /\ UNCHANGED <<posts, lists>>
  /\ LibFrame

\* a store whose tid column is a key refuses a row whose tid is stored:
\* sqlite3_step then returns SQLITE_CONSTRAINT whatever step says
addReply(user_id, reply_tweet_id, prepared, step) ==
  /\ RowsLeft
  /\ LET row         == ReplyRow(user_id, reply_tweet_id, <<"q">>)
         refused     == tidIsKey /\ \E t \in tweets : t.tid = row.tid
         reply_added == prepared /\ ~refused /\ step = "SQLITE_DONE"
     IN /\ tweets' = IF reply_added THEN tweets \cup {row} ELSE tweets
        /\ call' = [op |-> "addReply", owner |-> user_id, lname |-> "",
                    tid |-> reply_tweet_id, result |-> reply_added,
                    inserted |-> reply_added]
  /\ UNCHANGED <<follows, retweets, now, feed, feedViewer, requackLog, quackMsg,
                 feedFault>>
  /\ UNCHANGED <<posts, lists, include, proc, usrIsKey, tidIsKey, fmt>>
  /\ UNCHANGED <<userVars, pad>>
  /\ UNCHANGED <<allocVars, pageVars, sessVars>>

\* the tweets table at the start: empty, or one quack
StoredQuacks ==
  {{}, {[tid |-> 1, writer_id |-> 1, tdate |-> 1, ttime |-> 1,
         text |-> <<"q">>]}}

(***************************************************************************)
(* SpecLists: the calls on empty posts, lists and include tables and a     *)
(* tweets table that is empty or holds one quack.                          *)
(***************************************************************************)
InitLists ==
  /\ AllocIdle
  /\ follows = {} /\ retweets = <<>>
  /\ tweets \in StoredQuacks
  /\ now = [date |-> 1, time |-> 1]
  /\ feed = <<>> /\ feedViewer = 0 /\ feedFault = FALSE
  /\ requackLog = <<>> /\ quackMsg = NoMsg
  /\ PageIdle
  /\ SessIdle
  /\ RaceIdle
  /\ FmtIdle
  /\ PadIdle
  /\ UserIdle
  /\ posts = <<>> /\ lists = {} /\ include = <<>> /\ call = NoLibCall
  /\ tidIsKey \in BOOLEAN

NextLists ==
  \/ \E t \in TweetIds, u \in ListOwners, prepared \in BOOLEAN,
        step \in InsertSteps : addPost(t, u, prepared, step)
  \/ \E u \in ListOwners, l \in ListNames, prepared \in BOOLEAN,
        step \in InsertSteps : createList(u, l, prepared, step)
  \/ \E l \in ListNames, t \in TweetIds, u \in ListOwners,
        looked \in BOOLEAN, prepared \in BOOLEAN, step \in InsertSteps :
          addToList(l, t, u, looked, prepared, step)
  \/ \E u \in ListOwners, t \in TweetIds, prepared \in BOOLEAN,
        step \in InsertSteps : addReply(u, t, prepared, step)

SpecLists == InitLists /\ [][NextLists]_vars

(***************************************************************************)
(* Quacker::formatTweetText.  A string is a sequence of characters.        *)
(***************************************************************************)
MaxText  == 4      \* characters of the text
MaxWidth == 3      \* largest line_width

\* the pieces of s between occurrences of sep, empty pieces included
RECURSIVE Split(_, _)
Split(s, sep) ==
  IF s = <<>> THEN << <<>> >>
  ELSE LET r == Split(Tail(s), sep) IN
       IF Head(s) = sep THEN << <<>> >> \o r
       ELSE << <<Head(s)>> \o Head(r) >> \o Tail(r)

\* the words that 'words >> word' extracts: maximal runs without whitespace
NonEmpty(w) == w # <<>>

Words(text) == SelectSeq(Split(text, " "), NonEmpty)

\* the while loop from word i on
RECURSIVE FormatLoop(_, _, _, _, _)
FormatLoop(words, i, line_width, formattedText, currentLineLength) ==
  IF i > Len(words) THEN formattedText
  ELSE LET word == words[i]
           brk  == currentLineLength + Len(word) + 1 > line_width
           out1 == IF brk THEN formattedText \o <<"\n">> ELSE formattedText
           len1 == IF brk THEN 0 ELSE currentLineLength
           out2 == IF len1 > 0 THEN out1 \o <<" ">> ELSE out1
           len2 == IF len1 > 0 THEN len1 + 1 ELSE len1
       IN FormatLoop(words, i + 1, line_width, out2 \o word,
                     len2 + Len(word))

formatTweetText(text, line_width) ==
  FormatLoop(Words(text), 1, line_width, <<>>, 0)

\* the lines of a formatted string
Lines(out) == Range(Split(out, "\n"))

Texts ==
  UNION {[1 .. n -> {"a", " "}] : n \in 0 .. MaxText}

\* one call with the text and width chosen at the start
FormatCall ==
  /\ ~fmt.done
  /\ fmt' = [fmt EXCEPT !.out = formatTweetText(fmt.text, fmt.line_width),
                        !.done = TRUE]
  /\ UNCHANGED <<proc, usrIsKey, tidIsKey, posts, lists, include, call>>
  /\ UNCHANGED <<userVars, pad>>
  /\ UNCHANGED <<allocVars, feedVars, pageVars, sessVars>>

(***************************************************************************)
(* SpecFormat: one call of formatTweetText on each text and width.         *)
(***************************************************************************)
InitFormat ==
  /\ \E text \in Texts, line_width \in 1 .. MaxWidth :
       fmt = [text |-> text, line_width |-> line_width, out |-> <<>>,
              done |-> FALSE]
  /\ RaceIdle
  /\ ListsIdle
  /\ UserIdle
  /\ PadIdle
  /\ AllocIdle
  /\ FeedIdle
  /\ PageIdle
  /\ SessIdle

NextFormat == FormatCall

SpecFormat == InitFormat /\ [][NextFormat]_vars

(***************************************************************************)
(* SpecUser: one visit of the user page, opened from the followers list    *)
(* for a user with up to MaxQuacks quacks, until the page returns.         *)
(***************************************************************************)
MaxQuacks == 7     \* quacks of the user whose page is open

InitUser ==
  /\ AllocIdle
  /\ FeedIdle
  /\ view = "user" /\ maxQuacks = 0 /\ FeedDisplayCount = 0
  /\ error = NoMoreQuacks
  /\ results = 1 /\ UserDisplayCount = 5 /\ listMsg = ""
  /\ shown = ListRender(5, 1) /\ lastCmd = NoCmd /\ rowI = 1
  /\ lastSel = NoSel
  /\ session_user_id = <<1>> /\ logged_in = TRUE /\ pwds = {}
  /\ back = <<"followers">> /\ typed = NoTyped
  /\ RaceIdle
  /\ ListsIdle
  /\ FmtIdle
  /\ PadIdle
  /\ hardstop = 3 /\ userError = ""
  /\ users_quacks \in 0 .. MaxQuacks

NextUser ==
  \/ UserSeeMore
  \/ UserSeeLess
  \/ UserOtherOption
  \/ UserOption4
  \/ \E input \in SelectionLines : UserSelect(input, users_quacks, maxQuacks)
  \/ PageReturn(maxQuacks)

(***************************************************************************)
(* SpecName: the name typed at signupPage's first prompt, stored by        *)
(* addUser, and the author line Pond::getFeed builds from it.              *)
(***************************************************************************)
MaxName  == 82     \* longest name typed
SizeBits == 8      \* width of std::size_t (scaled down)

\* the column the date of a feed entry starts in
NameColumn == 80

SIZE_MAX == Pow2(SizeBits) - 1

\* std::string::max_size(): half the range of std::size_t
max_size == Pow2(SizeBits - 1) - 1

\* a line of lead spaces, body letters and trail spaces
NameLine(lead, body, trail) == Rep(" ", lead) \o Rep("q", body) \o Rep(" ", trail)

NameLines ==
  {NameLine(lead, body, trail) :
     lead \in 0 .. 1, body \in 0 .. MaxName, trail \in 0 .. 1}

\* 80 - oss.str().length() in std::size_t: the difference modulo 2^SizeBits
PaddingLength(length) == (NameColumn - length) % (SIZE_MAX + 1)

PadFrame ==
  /\ UNCHANGED <<proc, usrIsKey, tidIsKey, posts, lists, include, call, fmt,
                 userVars>>
  /\ UNCHANGED <<allocVars, feedVars, pageVars, sessVars>>

\* signupPage's name prompt: the trimmed line is the name, an empty name
\* returns; the other fields and addUser do not look at the name
SignupName(line) ==
  /\ ~pad.accepted /\ ~pad.done
  /\ pad' = [pad EXCEPT !.line = line, !.name = trim(line),
                        !.accepted = (trim(line) # <<>>)]
  /\ PadFrame

\* one row of getFeed whose author has the name signed up:
\* std::string(80 - oss.str().length(), ' ') throws std::length_error for
\* a count above max_size()
FeedAuthorLine ==
  /\ pad.accepted /\ ~pad.done
  /\ LET n == PaddingLength(Len(pad.name)) IN
     pad' = [pad EXCEPT !.padding = n, !.thrown = (n > max_size),
                        !.done = TRUE]
  /\ PadFrame

InitName ==
  /\ AllocIdle
  /\ FeedIdle
  /\ PageIdle
  /\ SessIdle
  /\ LibIdle

NextName ==
  \/ \E line \in NameLines : SignupName(line)
  \/ FeedAuthorLine

SpecName == InitName /\ [][NextName]_vars

(***************************************************************************)
(* SpecSelect: the pages with a row prompt, each as it is entered:         *)
(* mainPage with its first render, a list page with the results of its     *)
(* query (opened from the main page of a user whose feed is empty), and    *)
(* userPage on a user with any number of quacks.                           *)
(***************************************************************************)
ListEntered(v, n) ==
  /\ AllocIdle
  /\ FeedIdle
  /\ view = v /\ maxQuacks = 0 /\ FeedDisplayCount = 0
  /\ error = NoMoreQuacks /\ rowI = 1
  /\ results = n /\ UserDisplayCount = 5 /\ listMsg = ""
  /\ shown = ListRender(5, n)
  /\ lastCmd = [cmd |-> "query", view |-> v, from |-> 5]
  /\ lastSel = NoSel
  /\ session_user_id = <<1>> /\ logged_in = TRUE /\ pwds = {}
  /\ back = <<>> /\ typed = NoTyped
  /\ RaceIdle
  /\ ListsIdle
  /\ FmtIdle
  /\ PadIdle
  /\ UserIdle

InitSelect ==
  \/ InitPage
  \/ \E v \in ListViews, n \in 1 .. MaxTotal : ListEntered(v, n)
  \/ InitUser

NextSelect ==
  \/ MainSeeMore
  \/ MainSeeLess
  \/ MainSelect
  \/ \E input \in SelectionLines : FeedSelect(input)
  \/ ListMore
  \/ ListLess
  \/ \E input \in SelectionLines : ListSelect(input)
  \/ UserSeeMore
  \/ UserSeeLess
  \/ UserOption4
  \/ \E input \in SelectionLines : UserSelect(input, users_quacks, maxQuacks)
  \/ PageReturn(maxQuacks)

SpecSelect == InitSelect /\ [][NextSelect]_vars

SpecUser == InitUser /\ [][NextUser]_vars

(***************************************************************************)
(* Claims about the allocator.                                             *)
(***************************************************************************)
InUse(U, k) == U[k] > 0

Free(U, lo, hi) == {k \in lo .. hi : ~InUse(U, k)}

Least(S) == CHOOSE k \in S : \A j \in S : k <= j

Greatest(S) == CHOOSE k \in S : \A j \in S : k >= j

\* the scan ran: addUser was called and the id query could be prepared
Scanned == ret.called /\ ret.fault # "scan"

\* C1 (as stated): the allocator returns the smallest non-negative integer
\* that is not among the existing ids.
C1_SmallestNonNegative ==
  (Scanned /\ Free(ret.before, 0, INT32_MAX) # {})
    => (ret.ok /\ ret.id = Least(Free(ret.before, 0, INT32_MAX)))

\* C1 (amended): the allocator returns the smallest integer >= 1 that is
\* not among the existing ids, whenever some id in 1..INT32_MAX is unused.
C1_SmallestPositive ==
  (Scanned /\ Free(ret.before, 1, INT32_MAX) # {})
    => (ret.ok /\ ret.id = Least(Free(ret.before, 1, INT32_MAX)))

\* a scan that skipped a used id, found a gap below a used id and took it,
\* while 0 was unused as well
C1_Witness ==
  /\ Scanned /\ ret.fault = "none"
  /\ InUse(ret.before, 1) /\ ~InUse(ret.before, 2) /\ InUse(ret.before, 3)
  /\ ~InUse(ret.before, 0)
  /\ ret.id = 2 /\ ret.created

\* C2: stored user ids stay pairwise distinct, and every id a successful
\* addUser returns was not in the table before the call.
C2_IdsDistinct ==
  /\ \A k \in Ids : users[k] <= 1
  /\ ret.created => ~InUse(ret.before, ret.id)

\* C3: with every id 1..INT32_MAX in use, the allocator returns the first
\* unused id scanning downward from -1.
C3_NegativeFallback ==
  (Scanned /\ Free(ret.before, 1, INT32_MAX) = {}
           /\ Free(ret.before, INT32_MIN, -1) # {})
    => (ret.ok /\ ret.id = Greatest(Free(ret.before, INT32_MIN, -1)))

\* C4: the allocator signals failure (get_unique_user_id false, addUser
\* null) exactly when every positive and every negative id is in use.
C4_FailsIffExhausted ==
  (ret.called /\ ret.fault = "none")
    => ((~ret.ok /\ ~ret.created)
          <=> (Free(ret.before, 1, INT32_MAX) = {}
                 /\ Free(ret.before, INT32_MIN, -1) = {}))

(***************************************************************************)
(* Claims about the feed and the requack gate.                             *)
(***************************************************************************)
Follows(v, u) == <<v, u>> \in follows

\* the re-share rows a feed row of type retweet can stand for
SharesOf(e) ==
  {r \in Range(retweets) :
     r.tid = e.tid /\ r.retweeter_id = e.writer_id /\ r.rdate = e.date}

\* C5: the feed built for viewer v by a query the store prepared holds
\* exactly the posts whose author v follows and the re-shares with spam
\* flag 0 whose re-sharer v follows, each once, and nothing by an account v
\* does not follow.
C5_FeedContents ==
  (feedViewer # 0 /\ ~feedFault) =>
    /\ \A t \in tweets :
         Follows(feedViewer, t.writer_id) =>
           \E e \in Range(feed) :
             e.type = "tweet" /\ e.tid = t.tid /\ e.writer_id = t.writer_id
    /\ \A r \in Range(retweets) :
         (r.spam = 0 /\ Follows(feedViewer, r.retweeter_id)) =>
           \E e \in Range(feed) : e.type = "retweet" /\ r \in SharesOf(e)
    /\ \A e \in Range(feed) :
         /\ Follows(feedViewer, e.writer_id)
         /\ e.type = "tweet" =>
              \E t \in tweets : t.tid = e.tid /\ t.writer_id = e.writer_id
         /\ e.type = "retweet" => \E r \in SharesOf(e) : r.spam = 0
    /\ \A i, j \in DOMAIN feed : feed[i] = feed[j] => i = j

\* a feed for a viewer who has posted but does not follow themself, holding
\* only the re-share made by an account they follow
C5_Witness ==
  /\ feedViewer # 0
  /\ ~Follows(feedViewer, feedViewer)
  /\ \E t \in tweets : t.writer_id = feedViewer
  /\ Len(feed) = 1
  /\ feed[1].type = "retweet"
  /\ feed[1].writer_id # feedViewer

\* C6: consecutive feed entries are in descending (date, time) order,
\* whichever of the two streams they come from.
C6_FeedOrdered ==
  \A i \in 1 .. Len(feed) - 1 : ~After(feed[i + 1], feed[i])

\* a re-share of a later date ahead of a post of an earlier date
C6_Witness ==
  /\ Len(feed) = 2
  /\ feed[1].type = "retweet" /\ feed[2].type = "tweet"
  /\ feed[1].date > feed[2].date

\* C7: a re-share entry carries the post's text, the re-sharer's identity
\* and the re-share's own date and time, as sort key and as displayed.
C7_RepostTimestamp ==
  \A e \in Range(feed) :
    e.type = "retweet" =>
      \E r \in Range(retweets), t \in tweets :
        /\ r.tid = e.tid /\ t.tid = e.tid
        /\ e.writer_id = r.retweeter_id
        /\ FeedString(e).name = NameOf(r.retweeter_id)
        /\ FeedString(e).text = t.text
        /\ e.date = r.rdate /\ e.time = r.rtime
        /\ FeedString(e).date = r.rdate /\ FeedString(e).time = r.rtime

\* C8: a re-share whose spam flag is set never appears in a feed: a feed
\* entry that matches a spam re-share is the entry of a re-share with spam
\* flag 0 by the same account, of the same post, on the same date.
C8_SpamExcluded ==
  \A e \in Range(feed) :
    e.type = "retweet" =>
      \A r \in SharesOf(e) : r.spam = 1 => \E r0 \in SharesOf(e) : r0.spam = 0

\* a feed built while the store holds a spam re-share by an account the
\* viewer follows, made on a later date than that account's first re-share
C8_Witness ==
  /\ feedViewer # 0
  /\ Len(feed) >= 1
  /\ \E r \in Range(retweets), r0 \in Range(retweets) :
       /\ r.spam = 1 /\ r0.spam = 0
       /\ r.tid = r0.tid /\ r.retweeter_id = r0.retweeter_id
       /\ r.rdate > r0.rdate
       /\ Follows(feedViewer, r.retweeter_id)

\* C9: in the requack calls of one viewer on one post, absent a store
\* failure, the first returns 0 (Success) and every later one 1
\* (DuplicateSpam); the quack page shows the success message for 0, the
\* marked-as-spam message for 1 and the error message for anything else.
C9_RequackGate ==
  /\ \A k \in DOMAIN requackLog :
       (\A i \in DOMAIN requackLog[k] : requackLog[k][i] # RequackError) =>
          \A i \in DOMAIN requackLog[k] :
            requackLog[k][i] = IF i = 1 THEN 0 ELSE 1
  /\ quackMsg # NoMsg =>
       /\ quackMsg.result = 0 => quackMsg.text = RequackSuccessful
       /\ quackMsg.result = 1 => quackMsg.text = AlreadyRequacked
       /\ quackMsg.result \notin {0, 1} => quackMsg.text = ErrorRequacking

\* a second requack of the same post by the same viewer, answered with the
\* marked-as-spam message
C9_Witness ==
  /\ \E k \in DOMAIN requackLog : requackLog[k] = <<0, 1>>
  /\ quackMsg = [result |-> 1, text |-> AlreadyRequacked]

(***************************************************************************)
(* Claims about the post ids behind the feed rows.                         *)
(***************************************************************************)
QuackIdPrefix == "Quack Id: "

\* Quacker::extractQuackID: the number after the prefix when the string
\* starts with it, -1 otherwise.  An entry string starts with the name.
extractQuackID(quackString) ==
  IF quackString.name[1] = QuackIdPrefix THEN quackString.name[2] ELSE -1

\* feed_quack_ids when processFeed has walked the feed built last
feed_quack_ids ==
  [k \in 1 .. ProcessFeed(FeedDisplayCount, error, Len(feed)).ids |->
     extractQuackID(FeedString(feed[k]))]

\* C14: for every row r the feed render prints, feed_quack_ids[r-1] - the
\* id option 5 hands to the quack page for r - is the post id of the entry
\* printed at row r.
C14_SelectedIdIsRowId ==
  \A r \in ProcessFeed(FeedDisplayCount, error, Len(feed)).shown :
    feed_quack_ids[r] = feed[r].tid

(***************************************************************************)
(* Claims about the windows.                                               *)
(***************************************************************************)
\* window size and size of the list of the page in front
WindowSize ==
  IF lastCmd.view = "main" THEN FeedDisplayCount ELSE UserDisplayCount

TotalCount == IF lastCmd.view = "main" THEN maxQuacks ELSE results

NoMoreSignalled ==
  IF lastCmd.view = "main" THEN error = NoMoreQuacks
  ELSE listMsg = NoMoreItems

\* C10: a see-more command on window size s sets the window to s+5 when
\* s+5 < totalCount+5 and otherwise leaves it at s and signals NoMoreItems
\* (feed: option 1 and the processFeed clamp; list pages: the M command).
C10_Grow ==
  lastCmd.cmd = "more" =>
    IF lastCmd.from + 5 < TotalCount + 5
    THEN WindowSize = lastCmd.from + 5 /\ ~NoMoreSignalled
    ELSE WindowSize = lastCmd.from /\ NoMoreSignalled

\* the feed of 12 entries grown 5, 10, 15 and refused at 15
C10_Witness ==
  /\ view = "main" /\ maxQuacks = 12
  /\ lastCmd = [cmd |-> "more", view |-> "main", from |-> 15]
  /\ FeedDisplayCount = 15 /\ error = NoMoreQuacks

AlreadyMinSignalled ==
  IF lastCmd.view = "main" THEN error = AlreadyNoQuacks
  ELSE listMsg = AlreadyAtMinimum

\* C11: a see-less command on window size s sets the window to max(s-5, 0)
\* and signals AlreadyAtMinimum exactly when s was 0 (feed: option 2 and the
\* processFeed clamp; list pages: the L command).
C11_Shrink ==
  lastCmd.cmd = "less" =>
    /\ WindowSize = Max(lastCmd.from - 5, 0)
    /\ AlreadyMinSignalled <=> lastCmd.from = 0

\* see less typed on an empty window of a feed of 12 entries
C11_Witness ==
  /\ view = "main" /\ maxQuacks = 12
  /\ lastCmd = [cmd |-> "less", view |-> "main", from |-> 0]
  /\ FeedDisplayCount = 0 /\ error = AlreadyNoQuacks

FeedInFront == view \in {"main", "feedSelect"}

ListInFront == view \in ListViews

requestedSize == IF FeedInFront THEN FeedDisplayCount ELSE UserDisplayCount

totalCount == IF FeedInFront THEN maxQuacks ELSE results

\* C12 as stated: the rows on the screen are the positions p with
\* requestedSize - 5 < p <= min(requestedSize, totalCount).
C12_RowsOfRequestedSize ==
  (FeedInFront \/ ListInFront) =>
    shown = {p \in 1 .. totalCount :
               requestedSize - 5 < p /\ p <= Min(requestedSize, totalCount)}

\* C12: the rows on the screen of the feed and of a list page are the
\* positions p with d - 5 < p <= d, where d = min(requestedSize, totalCount):
\* a window past the end shows the last five items.
C12_RowsOfLastPage ==
  (FeedInFront \/ ListInFront) =>
    LET d == Min(requestedSize, totalCount) IN
    shown = {p \in 1 .. totalCount : d - 5 < p /\ p <= d}

\* a feed of 12 entries with window 15 shows rows 8 to 12
C12_Witness ==
  /\ view = "main" /\ maxQuacks = 12 /\ FeedDisplayCount = 15
  /\ shown = 8 .. 12

\* C13: a positive row number that fits an int is accepted at the prompt of
\* the feed or of a list page if and only if the latest render printed that
\* row; a rejected number opens no page.
C13_AcceptedIffDisplayed ==
  (lastSel.made /\ lastSel.input.kind = "digits"
     /\ lastSel.input.value <= INT_MAX) =>
    /\ lastSel.accepted <=> lastSel.input.value \in lastSel.displayed
    /\ ~lastSel.accepted =>
         lastSel.opened = <<>> /\ view \notin {"quack", "user"}

\* row 8 typed in the followers page after one M, which shows rows 6 to 10
C13_Witness ==
  /\ lastSel.made /\ lastSel.view = "followers"
  /\ lastSel.displayed = 6 .. 10 /\ UserDisplayCount = 10
  /\ lastSel.input = Digits(8) /\ lastSel.accepted
  /\ view = "user"

\* C15: in the three list pages, an accepted row number r opens the item
\* printed with number r by the latest render, results[r-1].
C15_OpensPrintedItem ==
  (lastSel.made /\ lastSel.view \in ListViews /\ lastSel.accepted) =>
    /\ lastSel.input.value \in lastSel.displayed
    /\ lastSel.opened = <<lastSel.input.value - 1>>

\* row 9 of 12 quacks typed at window 15 (rows 8 to 12 on the screen)
C15_Witness ==
  /\ lastSel.made /\ lastSel.view = "quacks" /\ lastSel.accepted
  /\ results = 12 /\ UserDisplayCount = 15 /\ lastSel.displayed = 8 .. 12
  /\ lastSel.input = Digits(9) /\ lastSel.opened = <<8>>
  /\ view = "quack"

\* C16: the window of the feed and of a list page is a non-negative multiple
\* of 5 at every prompt, and a window of 0 shows no row.
C16_WindowMultipleOfFive ==
  /\ FeedDisplayCount >= 0 /\ FeedDisplayCount % 5 = 0
  /\ UserDisplayCount >= 0 /\ UserDisplayCount % 5 = 0
  /\ (FeedInFront \/ ListInFront) /\ requestedSize = 0 => shown = {}

\* L typed three times on 12 search results grown to 15
C16_Witness ==
  /\ view = "users" /\ results = 12 /\ UserDisplayCount = 0
  /\ lastCmd = [cmd |-> "less", view |-> "users", from |-> 5]
  /\ shown = {}

\* C17: a new query - a search term, the followers page opened, mainPage
\* entered after a login - starts with window size 5, whatever size the
\* window before it had.
C17_NewQueryStartsAtFive ==
  lastCmd.cmd = "query" =>
    IF lastCmd.view = "main" THEN view = "mainEntry" /\ FeedDisplayCount = 5
    ELSE UserDisplayCount = 5 /\ shown = ListRender(5, results)

\* a new search term typed after the window of the search before was 15
C17_Witness ==
  /\ lastCmd = [cmd |-> "query", view |-> "quacks", from |-> 15]
  /\ UserDisplayCount = 5 /\ results = 12

\* C18: no line typed at a row-selection prompt ends the process.
C18_NoFatalInput == view # Terminated

(***************************************************************************)
(* Claims about the prompts and the session.                               *)
(***************************************************************************)
\* the menu a flow was entered from
EnclosingMenu ==
  CASE view \in {"login", "signup"}   -> "start"
    [] view \in {"posting", "feedSelect", "followers", "users", "quacks"}
                                      -> "main"
    [] view = "reply"                 -> "quack"
    [] view = "userSelect"            -> "user"
    [] OTHER                          -> view

\* the page in front when a flow has ended: a row selection on a search
\* page ends at the page's prompt for a term, and the row selection of the
\* user page ends the user page as well
Enclosing ==
  CASE view \in {"users", "quacks"} /\ results > 0 -> view
    [] view = "userSelect" ->
         IF back[Len(back)] \in {"users", "quacks"}
         THEN back[Len(back)] ELSE "main"
    [] OTHER -> EnclosingMenu

EmptyLineTyped ==
  typed'.empty \/ (lastSel'.made /\ lastSel'.input = EmptyLine)

StoreAndWindowKept ==
  UNCHANGED <<users, pwds, follows, tweets, retweets, session_user_id,
              FeedDisplayCount>>

SignedUp ==
  /\ typed'.prompt = "signup password"
  /\ nAdds' = nAdds + 1
  /\ ret'.created
  /\ users'[ret'.id] = users[ret'.id] + 1

\* the id and password typed in this step are those of a stored row
LoginMatches ==
  /\ typed'.prompt = "login"
  /\ <<typed'.line.value, typed'.password>> \in pwds

\* C20: logged_in becomes true and the session user id is set only in a
\* login whose id and password are those of a stored user, with that id as
\* session id, or in a signup whose addUser inserted the row, with the new
\* id as session id (logged_in follows at the acknowledgement of the
\* signup); a failed login or signup leaves no session.
C20_SessionOnlyByLoginOrSignup ==
  [][ /\ (session_user_id' # session_user_id /\ session_user_id' # <<>>) =>
             \/ /\ LoginMatches
                /\ session_user_id' = <<typed'.line.value>>
                /\ logged_in'
             \/ /\ SignedUp
                /\ session_user_id' = <<ret'.id>>
                /\ view' = "created"
      /\ (logged_in' /\ ~logged_in) =>
             \/ /\ LoginMatches
                /\ session_user_id' = <<typed'.line.value>>
             \/ /\ view = "created"
                /\ session_user_id' = session_user_id
                /\ session_user_id # <<>>
      /\ (typed'.prompt = "login" /\ ~LoginMatches) =>
           session_user_id' = <<>> /\ ~logged_in'
      /\ ( /\ view = "signup"
           /\ typed'.prompt \in {"signup name", "signup email",
                                 "signup phone", "signup password"}
           /\ ~SignedUp ) =>
           session_user_id' = <<>> /\ ~logged_in' ]_vars

\* user 2 logged in with the password given at signup
C20_Witness ==
  /\ logged_in /\ session_user_id = <<2>>
  /\ typed.prompt = "login" /\ typed.line = IntegerLine(2)
  /\ <<2, typed.password>> \in pwds
  /\ view = "mainEntry"

(***************************************************************************)
(* Claims about the end of a session.                                      *)
(***************************************************************************)
\* the pages under mainPage
LoggedInViews ==
  {"mainEntry", "main", "feedSelect", "users", "quacks", "followers",
   "posting", "quack", "user", "userSelect", "reply"}

\* C21: option 8 of the main menu clears the session user id and sets
\* logged_in to false and the start page is shown next; a page under the
\* main page is in front only while a session exists, and the first such
\* page after a log out is entered by a login or signup that succeeds.
C21_LogoutEndsSession ==
  [][ /\ (view = "main" /\ lastCmd'.cmd = "logout") =>
           /\ session_user_id' = <<>>
           /\ ~logged_in'
           /\ view' = "start"
      /\ view' \in LoggedInViews => (logged_in' /\ session_user_id' # <<>>)
      /\ (view \notin LoggedInViews /\ view' \in LoggedInViews) =>
           /\ view' = "mainEntry"
           /\ (LoginMatches /\ session_user_id = <<>>) \/ view = "created"
      /\ (view # "created" /\ view' = "created") =>
           (SignedUp /\ session_user_id = <<>>) ]_vars

\* a user signed up, logged out, and the start page is in front
C21_Witness ==
  /\ lastCmd.cmd = "logout"
  /\ view = "start"
  /\ pwds # {}
  /\ session_user_id = <<>> /\ ~logged_in

(***************************************************************************)
(* Claims about the follows table.                                         *)
(***************************************************************************)
\* C22: after any sequence of Follow The User actions no row of follows
\* has the same user as follower and as followee.  (follows is a set of
\* pairs, and FollowTheUser inserts a pair only when the viewer's followees
\* do not hold the viewed user, so no pair is inserted twice.)
C22_NoSelfEdge == \A f \in follows : f[1] # f[2]

(***************************************************************************)
(* Claims about posts and lists.                                           *)
(***************************************************************************)
\* C23: addPost returns true exactly when the post row was inserted into
\* the store.
C23_AddPostReportsInsert ==
  call.op = "addPost" => (call.result <=> call.inserted)

\* C24: a call addToList(list_name, tweet_id, user_id) made when user_id
\* owns no list named list_name returns false and leaves the include table
\* as it was; a step that adds an include row adds the one row of the call,
\* and its (owner, list) pair is a row of the lists table.
C24_AddToListNeedsList ==
  [][ call'.op = "addToList" =>
        /\ <<call'.owner, call'.lname>> \notin lists =>
             (~call'.result /\ include' = include)
        /\ include' # include =>
             /\ <<call'.owner, call'.lname>> \in lists
             /\ include' =
                  Append(include, <<call'.owner, call'.lname, call'.tid>>)
             /\ call'.result ]_vars

\* an include row exists for one list, and a call for a list its caller
\* does not own has returned false
C24_Witness ==
  /\ call.op = "addToList"
  /\ <<call.owner, call.lname>> \notin lists
  /\ ~call.result
  /\ include # <<>>
  /\ \A i \in DOMAIN include : <<include[i][1], include[i][2]>> \in lists

(***************************************************************************)
(* Claims about a feed query that fails.                                   *)
(***************************************************************************)
\* C25: when the feed query could not be prepared getFeed returns an empty
\* feed, and processFeed on it, whatever the window size, prints no entry,
\* records no row and leaves no number the row prompt accepts: what it does
\* for a viewer with no feed entries.
C25_FailedQueryGivesEmptyFeed ==
  feedFault =>
    /\ feed = <<>>
    /\ \A k \in 0 .. (MaxTotal \div PageStep) :
         LET r == ProcessFeed(k * PageStep, "", Len(feed)) IN
         /\ r.shown = {}
         /\ r.ids = 0
         /\ r = ProcessFeed(k * PageStep, "", 0)
         /\ \A input \in SelectionLines :
              (positive_integer_regex(input) /\ ~stoi(input).thrown) =>
                ~FeedAccepts(stoi(input).value - 1, r.ids + 1)

\* the query failed for a viewer who follows the writer of a stored quack
C25_Witness ==
  /\ feedFault
  /\ feedViewer # 0
  /\ \E t \in tweets : Follows(feedViewer, t.writer_id)

(***************************************************************************)
(* Claims about the allocator as a step of addUser.                        *)
(***************************************************************************)
\* C26: a call to get_unique_user_id leaves the users table unchanged, and
\* the table changes only by the INSERT of a session whose scan returned
\* the id: that step adds one row, with that id.
C26_AllocatorReadOnly ==
  [][ /\ \A p \in Sessions :
           (proc[p].pc = "idle" /\ proc'[p].pc # "idle") => users' = users
      /\ users' # users =>
           \E p \in Sessions :
             /\ proc[p].pc = "scanned" /\ proc[p].ok
             /\ proc'[p].pc = "done" /\ proc'[p].created
             /\ users' = [users EXCEPT ![proc[p].id] = @ + 1] ]_vars

\* a session's scan returned an id that was free, the table was the same
\* after the scan, and the session's insert has stored the id
C26_Witness ==
  \E p \in Sessions :
    /\ proc[p].pc = "done" /\ proc[p].created
    /\ proc[p].seen[proc[p].id] = 0
    /\ users[proc[p].id] = 1

(***************************************************************************)
(* Claims about the text formatter.                                        *)
(***************************************************************************)
\* C27: no line of formatTweetText(text, line_width) is longer than
\* line_width characters.
C27_LinesFit ==
  fmt.done => \A line \in Lines(fmt.out) : Len(line) <= fmt.line_width

(***************************************************************************)
(* Claims about the gap scan and the ids signups receive.                  *)
(***************************************************************************)
\* C28: for any set S of stored ids the scan returns min{k >= 1 : k not in
\* S}; ids below 1 in S do not affect the result and 0 is never returned.
C28_GapScan ==
  Scanned =>
    /\ ret.ok
    /\ ret.id = Least(Free(ret.before, 1, INT32_MAX) \cup {INT32_MAX + 1})

\* the positive ids in use
Positives(U) == {k \in 1 .. INT32_MAX : InUse(U, k)}

\* the unused ids below the largest positive id in use
Gaps(U) == {k \in 1 .. INT32_MAX : ~InUse(U, k) /\ \E j \in Positives(U) : j > k}

\* C29: on a table holding exactly the ids 1..m (as m signups on an empty
\* table leave it) a successful signup receives m + 1 and the table then
\* holds exactly 1..m+1; on a table with gaps a successful signup receives
\* the smallest positive gap.
C29_DenseIds ==
  ret.created =>
    /\ \A m \in 0 .. INT32_MAX :
         {k \in Ids : InUse(ret.before, k)} = 1 .. m =>
           /\ ret.id = m + 1
           /\ {k \in Ids : InUse(users, k)} = 1 .. (m + 1)
    /\ Gaps(ret.before) # {} => ret.id = Least(Gaps(ret.before))

(***************************************************************************)
(* Claims about two sessions signing up at the same time.                  *)
(***************************************************************************)
\* both sessions' scans returned before either insert, and both inserts
\* were stepped with no store failure other than a refused row
Raced ==
  \A p \in Sessions :
    /\ proc[p].pc = "done" /\ proc[p].ok
    /\ proc[p].overlap /\ proc[p].fault = "none"

\* C30: when both scans complete before either insert both sessions are
\* allocated the same id; the ids stay unique only if the store refuses the
\* second insert, and then exactly one addUser returns the id and the other
\* returns null.
C30_RaceOutcome ==
  Raced =>
    LET second  == CHOOSE p \in Sessions : proc[p].second
        winners == {p \in Sessions : proc[p].created}
    IN /\ \A p, q \in Sessions : proc[p].id = proc[q].id
       /\ (\A k \in Ids : users[k] <= 1) => proc[second].refused
       /\ proc[second].refused => Cardinality(winners) = 1

(***************************************************************************)
(* Claims about replies.                                                   *)
(***************************************************************************)
Replies(T) == {t \in T : "replyto_tid" \in DOMAIN t}

\* C31: every row addReply stores has post id 1; on a store that keeps post
\* ids unique, a call made when a tweet with id 1 exists returns false and
\* stores nothing, and the tweets table never holds more than one reply.
C31_ReplyIdIsOne ==
  [][ /\ call'.op = "addReply" =>
           /\ \A t \in tweets' \ tweets : t.tid = 1
           /\ (tidIsKey /\ \E t \in tweets : t.tid = 1) =>
                (~call'.result /\ tweets' = tweets)
      /\ tidIsKey => Cardinality(Replies(tweets')) <= 1 ]_vars

\* one reply is stored and a later call was refused
C31_Witness ==
  /\ tidIsKey
  /\ call.op = "addReply" /\ ~call.result
  /\ Cardinality(Replies(tweets)) = 1
  /\ \A t \in tweets : t.tid = 1

(***************************************************************************)
(* Claims about the user page.                                             *)
(***************************************************************************)
\* C32: at the prompt of option 4 of the user page a row number is accepted
\* only if the render printed that row; nothing is accepted when hardstop
\* is 0.
C32_UserAcceptsDisplayed ==
  (lastSel.made /\ lastSel.view = "user" /\ lastSel.accepted) =>
    /\ lastSel.input.value \in lastSel.displayed
    /\ hardstop # 0

(***************************************************************************)
(* Claims about the pagination copies.                                     *)
(***************************************************************************)
\* the signal a message line stands for
Signal(msg) ==
  CASE msg \in {NoMoreQuacks, NoMoreItems} -> "NoMoreItems"
    [] msg \in {AlreadyNoQuacks, AlreadyAtMinimum} -> "AlreadyAtMinimum"
    [] OTHER -> "none"

\* window, signal and rows of the feed after a more/less command on window
\* w over total entries
FeedWindow(cmd, w, total) ==
  LET r == ProcessFeed(IF cmd = "more" THEN w + PageStep ELSE w - PageStep,
                       "", total)
  IN <<r.fdc, Signal(r.error), r.shown>>

\* C33: with 5 or more entries, a more/less command on a list page (user
\* search, quack search, followers) leaves the window size, the signal and
\* the set of displayed row numbers that the same command leaves on the
\* feed with the same window and the same number of entries; both windows
\* start at 5, so the copies agree after every sequence of commands.
C33_SameWindows ==
  [][ lastCmd'.cmd \in {"more", "less"} =>
        /\ (lastCmd'.view = "main" /\ maxQuacks >= 5) =>
             <<FeedDisplayCount', Signal(error'), shown'>>
               = FeedWindow(lastCmd'.cmd, FeedDisplayCount, maxQuacks)
        /\ (lastCmd'.view \in ListViews /\ results >= 5) =>
             <<UserDisplayCount', Signal(listMsg'), shown'>>
               = FeedWindow(lastCmd'.cmd, UserDisplayCount, results) ]_vars

\* a list page over 12 entries refused to grow a window of 15 and shows
\* the last five rows
C33_Witness ==
  /\ view \in ListViews
  /\ lastCmd.cmd = "more" /\ lastCmd.from = 15
  /\ results = 12 /\ UserDisplayCount = 15
  /\ listMsg = NoMoreItems
  /\ shown = 8 .. 12

(***************************************************************************)
(* Claims about renders without a pagination command.                      *)
(***************************************************************************)
\* C34: a feed render that is not the answer to a see-more or see-less
\* command, made while the window is 5 and no pagination message is up (as
\* at login), keeps the window at 5, shows the first min(5, totalCount)
\* entries and raises no pagination message; so the window is 5 at every
\* render until the first such command, whatever the feed sizes are.
C34_WindowStaysFive ==
  [][ ( /\ view' = "main"
        /\ view # "feedSelect" \/ lastSel'.input = EmptyLine
        /\ lastCmd'.cmd \notin {"more", "less"}
        /\ FeedDisplayCount = 5
        /\ Signal(error) = "none" ) =>
        /\ FeedDisplayCount' = 5
        /\ shown' = 1 .. Min(5, maxQuacks')
        /\ Signal(error') = "none" ]_vars

(***************************************************************************)
(* Claims about the size of a rendered page.                               *)
(***************************************************************************)
\* C35: while the window is greater than 0, the feed and a search or
\* followers page show exactly min(5, totalCount) rows, never more than 5:
\* the positions p with d - 5 < p <= d, where d = min(window, totalCount).
C35_FiveRowsOfWindow ==
  ((FeedInFront \/ ListInFront) /\ requestedSize > 0) =>
    LET d == Min(requestedSize, totalCount) IN
    /\ \A p \in 1 .. Max(totalCount, requestedSize) :
         p \in shown <=> (d - 5 < p /\ p <= d)
    /\ shown \subseteq 1 .. totalCount
    /\ Cardinality(shown) = Min(5, totalCount)
    /\ Cardinality(shown) <= 5

\* a followers or search page of 3 results shows its 3 rows, and one of 7
\* results with window 10 shows rows 3 to 7
C35_Witness ==
  /\ view \in ListViews /\ results = 7 /\ UserDisplayCount = 10
  /\ shown = 3 .. 7

(***************************************************************************)
(* Claims about the item an accepted row selection opens.                  *)
(***************************************************************************)
\* the number of elements of the collection the prompt of lastSel indexes:
\* feed_quack_ids, results or users_quacks
Collection ==
  CASE lastSel.view = "main" -> rowI - 1
    [] lastSel.view \in ListViews -> results
    [] lastSel.view = "user" -> users_quacks

\* C36: on the feed, the user-search, quack-search and followers pages and
\* the user page, an accepted row selection opens the element at an index i
\* with 0 <= i < size of the collection the page indexes, whatever the
\* window and the size are.
C36_SelectionInside ==
  (lastSel.made /\ lastSel.accepted) =>
    /\ Len(lastSel.opened) = 1
    /\ 0 <= lastSel.opened[1]
    /\ lastSel.opened[1] < Collection

\* the last quack of a user with 4 quacks is opened from the user page
C36_Witness ==
  /\ lastSel.accepted /\ lastSel.view = "user"
  /\ users_quacks = 4 /\ lastSel.opened = <<3>>

(***************************************************************************)
(* Claims about logged_in and the session user id.                         *)
(***************************************************************************)
\* C37 as stated: at every prompt logged_in is true exactly when the
\* session user id is set, and a page under mainPage is in front only
\* while the id is set.
C37_LoggedInIffUser ==
  /\ logged_in <=> session_user_id # <<>>
  /\ view \in LoggedInViews => session_user_id # <<>>

\* C37: at every prompt but the acknowledgement of a signup logged_in is
\* true exactly when the session user id is set; at that acknowledgement
\* the id is set and logged_in is still false; a page under mainPage is in
\* front only while the id is set.
C37_SessionFlagAndUser ==
  /\ view # "created" => (logged_in <=> session_user_id # <<>>)
  /\ view = "created" => (~logged_in /\ session_user_id # <<>>)
  /\ view \in LoggedInViews => session_user_id # <<>>

\* a second account was signed up after a log out: its acknowledgement is
\* in front
C37_Witness ==
  /\ view = "created" /\ session_user_id = <<2>> /\ ~logged_in
  /\ Cardinality(pwds) = 2

(***************************************************************************)
(* Claims about the author line of a feed entry.                           *)
(***************************************************************************)
\* C38: for every name signupPage accepts the padding getFeed puts after
\* the name, 80 minus the length of the name in unsigned arithmetic, is
\* between 0 and 80, and the author line is built.
C38_PaddingInColumn ==
  pad.done => (~pad.thrown /\ pad.padding \in 0 .. NameColumn)

====
